---- MODULE Spec2Model ----
(***************************************************************************)
(* Credit ledger (lib/payment-store.ts) and the generate middleware        *)
(* (server/routes/generate.ts) of annualreview.com.                        *)
(*                                                                         *)
(* The ledger is two SQLite tables.  better-sqlite3 is synchronous and the *)
(* ledger functions contain no await, so inside the Node process each call *)
(* of awardCredits / deductCredit / clearCreditStore runs to completion:   *)
(* one call is one action.  The middleware is an async function; it can be *)
(* interleaved with other work at its awaits only (readJsonBody, the       *)
(* verifyStripeSession promise, stripe.checkout.sessions.retrieve).        *)
(***************************************************************************)
EXTENDS Integers, Sequences, FiniteSets, TLC

VARIABLES driver, credits, credit_events, awarded, spent, last, calls, reqs
\* The legacy in-memory store, the Rails job cache, the OAuth callbacks and
\* the pipeline result cache (modelled at the end of the module).
VARIABLES creditMap, received
VARIABLES railsCache, jobs
VARIABLES callbacks
VARIABLES resultCache, runs

ledgerVars == <<driver, credits, credit_events, awarded, spent, last, calls, reqs>>
legacyVars == <<creditMap, received>>
railsVars == <<railsCache, jobs>>
pipelineVars == <<resultCache, runs>>
others == <<legacyVars, railsVars, callbacks, pipelineVars>>

vars == <<ledgerVars, others>>

\* The modules a specification does not exercise stay as they are loaded.
IdleLegacy == creditMap = <<>> /\ received = <<>>
IdleRails == railsCache = <<>> /\ jobs = <<>>
IdleCallbacks == callbacks = <<>>
IdlePipeline == resultCache = <<>> /\ runs = <<>>
IdleOthers == IdleLegacy /\ IdleRails /\ IdleCallbacks /\ IdlePipeline

(***************************************************************************)
(* Bounds and input sets                                                   *)
(***************************************************************************)
MaxAwarded == 5
MaxCount == 2
MaxTime == 2
NumCalls == 3
NumReq == 2
NumRace == 5
MaxRaceBalance == 2

CREDITS_PER_PURCHASE == 5

Principals == {"dave", "eve"}
Refs == {"cs_1", "cs_2"}
Legacy(sessionId) == "legacy_" \o sessionId
Keys == Principals \cup Refs
Times == 1..MaxTime
Counts == 0..MaxCount \cup {CREDITS_PER_PURCHASE}

\* A JavaScript argument that was not passed, and SQL NULL.
Undefined == "undefined"
Null == "NULL"

\* The SQLite driver (better-sqlite3) as far as this program depends on it:
\* given undefined as a bind value, the driver either refuses it with a
\* TypeError or binds NULL.  The source does not decide which; a build has
\* one of the two for its whole run.
Drivers == {"TypeError", "NULL"}

(***************************************************************************)
(* The store: tables, prepared statements                                  *)
(***************************************************************************)
\* openDb: both tables exist and are empty.
EmptyCredits == [k \in {} |-> 0]
EmptyDb == [credits |-> EmptyCredits, credit_events |-> {}]

Db == [credits |-> credits, credit_events |-> credit_events]

\* SELECT remaining FROM credits WHERE user_login = ?   ... ?.remaining ?? 0
getCredits(db, userLogin) ==
    IF userLogin \in DOMAIN db.credits THEN db.credits[userLogin] ELSE 0

\* INSERT INTO credits ... ON CONFLICT(user_login) DO UPDATE SET remaining = excluded.remaining
stmtUpsertCredits(c, userLogin, remaining) ==
    [k \in DOMAIN c \cup {userLogin} |-> IF k = userLogin THEN remaining ELSE c[k]]

\* Mutant: INSERT OR REPLACE, the row of an already processed session is
\* overwritten and reported as written.
stmtInsertEvent_Replace(events, stripeSessionId, userLogin, awardedAt) ==
    [changes |-> 1,
     credit_events |->
         {e \in events : e.stripe_session_id # stripeSessionId} \cup
             {[stripe_session_id |-> stripeSessionId,
               user_login |-> userLogin,
               awarded_at |-> awardedAt]}]

\* Mutant: a plain INSERT into a table without the primary key, every call
\* writes a row.
stmtInsertEvent_NoKey(events, stripeSessionId, userLogin, awardedAt) ==
    [changes |-> 1,
     credit_events |-> events \cup
         {[stripe_session_id |-> stripeSessionId,
           user_login |-> userLogin,
           awarded_at |-> awardedAt]}]

\* INSERT OR IGNORE INTO credit_events: the row is written unless a row with
\* the same primary key exists; changes is the number of rows written.
\* stripe_session_id is TEXT PRIMARY KEY without NOT NULL in a rowid table:
\* NULL is accepted and never conflicts, not even with another NULL.
stmtInsertEvent(events, stripeSessionId, userLogin, awardedAt) ==
    IF /\ stripeSessionId # Null
       /\ \E e \in events : e.stripe_session_id = stripeSessionId
    THEN [changes |-> 0, credit_events |-> events]
    ELSE [changes |-> 1,
          credit_events |-> events \cup
              {[stripe_session_id |-> stripeSessionId,
                user_login |-> userLogin,
                awarded_at |-> awardedAt]}]

\* stmtInsertEvent().run(stripeSessionId, ...): the parameters are declared
\* [string, string, string], which the compiled JavaScript does not enforce.
\* A string is bound as it is; undefined is refused or bound as NULL.
Bindable(v) == v # Undefined \/ driver = "NULL"
Bound(v) == IF v = Undefined THEN Null ELSE v

(***************************************************************************)
(* Ledger operations as functions of the store                             *)
(***************************************************************************)
\* Mutant: no early return when the reference was already processed, the
\* count is added at every call.
awardCredits_IncrementsAlways(db, userLogin, stripeSessionId, count, awardedAt) ==
    LET result == stmtInsertEvent(db.credit_events, Bound(stripeSessionId),
                                  userLogin, awardedAt)
    IN  [threw |-> FALSE, changes |-> result.changes,
         db |-> [credits |-> stmtUpsertCredits(db.credits, userLogin,
                                               getCredits(db, userLogin) + count),
                 credit_events |-> result.credit_events]]

\* Mutant: the upsert writes count, not current + count.
awardCredits_Overwrite(db, userLogin, stripeSessionId, count, awardedAt) ==
    LET result == stmtInsertEvent(db.credit_events, Bound(stripeSessionId),
                                  userLogin, awardedAt)
    IN  IF result.changes = 0
        THEN [threw |-> FALSE, changes |-> 0, db |-> db]
        ELSE [threw |-> FALSE, changes |-> result.changes,
              db |-> [credits |-> stmtUpsertCredits(db.credits, userLogin, count),
                      credit_events |-> result.credit_events]]

\* awardCredits(userLogin, stripeSessionId, count).  The function returns
\* nothing; the result here is the store it leaves (db), whether it threw, and
\* result.changes of its insert.
awardCredits(db, userLogin, stripeSessionId, count, awardedAt) ==
    IF ~Bindable(stripeSessionId)
    THEN [threw |-> TRUE, changes |-> 0, db |-> db]
    ELSE LET result == stmtInsertEvent(db.credit_events, Bound(stripeSessionId),
                                       userLogin, awardedAt)
             current == getCredits(db, userLogin)
         IN  IF result.changes = 0
             THEN [threw |-> FALSE, changes |-> 0, db |-> db]
             ELSE [threw |-> FALSE, changes |-> result.changes,
                   db |-> [credits |-> stmtUpsertCredits(db.credits, userLogin,
                                                         current + count),
                           credit_events |-> result.credit_events]]

\* The statements of awardCredits in the order it runs them.  None is inside
\* a transaction: each one is committed when its run() or get() returns.
Statements == <<"stmtInsertEvent", "stmtGetCredits", "stmtUpsertCredits">>

\* awardCredits when the store fails at its statement number at (the file
\* cannot be written or read, or the process is killed before the statement
\* runs): the statements before it have run and stay committed, the call does
\* not return normally.  A call that returns at the changes = 0 check never
\* reaches the later statements.
awardCreditsFails(db, userLogin, stripeSessionId, count, awardedAt, at) ==
    IF ~Bindable(stripeSessionId) \/ Statements[at] = "stmtInsertEvent"
    THEN [threw |-> TRUE, changes |-> 0, db |-> db]
    ELSE LET result == stmtInsertEvent(db.credit_events, Bound(stripeSessionId),
                                       userLogin, awardedAt)
         IN  IF result.changes = 0
             THEN [threw |-> FALSE, changes |-> 0, db |-> db]
             ELSE [threw |-> TRUE, changes |-> result.changes,
                   db |-> [credits |-> db.credits,
                           credit_events |-> result.credit_events]]

\* Mutant: the guard lets a zero balance through (remaining < 0).
deductCredit_OffByOne(db, userLogin) ==
    LET remaining == getCredits(db, userLogin)
    IN  IF remaining < 0
        THEN [ok |-> FALSE, db |-> db]
        ELSE [ok |-> TRUE,
              db |-> [credits |-> stmtUpsertCredits(db.credits, userLogin,
                                                    remaining - 1),
                      credit_events |-> db.credit_events]]

\* Mutant: a successful deduct empties the account (remaining = 0).
deductCredit_TakesAll(db, userLogin) ==
    LET remaining == getCredits(db, userLogin)
    IN  IF remaining <= 0
        THEN [ok |-> FALSE, db |-> db]
        ELSE [ok |-> TRUE,
              db |-> [credits |-> stmtUpsertCredits(db.credits, userLogin, 0),
                      credit_events |-> db.credit_events]]

\* Mutant: UPDATE credits SET remaining = remaining - 1 without a WHERE
\* clause, every row is lowered.
deductCredit_NoWhere(db, userLogin) ==
    LET remaining == getCredits(db, userLogin)
    IN  IF remaining <= 0
        THEN [ok |-> FALSE, db |-> db]
        ELSE [ok |-> TRUE,
              db |-> [credits |-> [k \in DOMAIN db.credits |-> db.credits[k] - 1],
                      credit_events |-> db.credit_events]]

\* deductCredit(userLogin): [ok, db]
deductCredit(db, userLogin) ==
    LET remaining == getCredits(db, userLogin)
    IN  IF remaining <= 0
        THEN [ok |-> FALSE, db |-> db]
        ELSE [ok |-> TRUE,
              db |-> [credits |-> stmtUpsertCredits(db.credits, userLogin,
                                                    remaining - 1),
                      credit_events |-> db.credit_events]]

\* Mutant: only the credits table is emptied.
clearCreditStore_CreditsOnly(db) ==
    [credits |-> EmptyCredits, credit_events |-> db.credit_events]

\* clearCreditStore(): DELETE FROM credits; DELETE FROM credit_events
clearCreditStore(db) == EmptyDb

\* markSessionPaid(sessionId): awardCredits(sessionId, `legacy_${sessionId}`)
markSessionPaid(db, sessionId, awardedAt) ==
    awardCredits(db, sessionId, Legacy(sessionId), CREDITS_PER_PURCHASE, awardedAt)

(***************************************************************************)
(* Bookkeeping beside the store (not program state): per account the       *)
(* credits added and the credits taken since the store was last cleared,   *)
(* and the last direct call of the ledger API.                             *)
(***************************************************************************)
Zero == [k \in Keys |-> 0]

Gain(db1, db2, k) ==
    IF getCredits(db2, k) > getCredits(db1, k)
    THEN getCredits(db2, k) - getCredits(db1, k) ELSE 0

Loss(db1, db2, k) ==
    IF getCredits(db2, k) < getCredits(db1, k)
    THEN getCredits(db1, k) - getCredits(db2, k) ELSE 0

\* The store becomes db; awarded and spent follow the balances.
SetDb(db) ==
    /\ credits' = db.credits
    /\ credit_events' = db.credit_events
    /\ awarded' = [k \in Keys |-> awarded[k] + Gain(Db, db, k)]
    /\ spent' = [k \in Keys |-> spent[k] + Loss(Db, db, k)]

\* The last direct ledger call: the function, the account it named, and ok:
\* deductCredit's return value, for an award whether its event row was written.
\* for clearCreditStore whether it deleted an event row.  count is the count
\* argument of an award, remaining the value that getCredits returned.
NoCall == [op |-> "none", userLogin |-> Undefined, ok |-> FALSE,
           count |-> 0, remaining |-> 0]
Returned(op, userLogin, ok) ==
    [op |-> op, userLogin |-> userLogin, ok |-> ok, count |-> 0, remaining |-> 0]

NoCalls == [i \in {} |-> 0]
NoReqs == [r \in {} |-> 0]

(***************************************************************************)
(* Direct calls of the ledger API (payment webhook, tests)                 *)
(***************************************************************************)
\* Here awarded and spent are kept from what the calls were given and what
\* they returned, not from the balances: awarded[p] is the sum of the counts
\* of the awards for p whose event row was written, spent[p] the number of
\* deductCredit(p) calls that returned true.
AwardCall(userLogin, stripeSessionId, count, awardedAt) ==
    /\ awarded[userLogin] + count <= MaxAwarded
    /\ LET a == awardCredits(Db, userLogin, stripeSessionId, count, awardedAt)
       IN  /\ credits' = a.db.credits
           /\ credit_events' = a.db.credit_events
           /\ awarded' = [awarded EXCEPT ![userLogin] =
                              @ + (IF a.changes = 1 THEN count ELSE 0)]
           /\ last' = [Returned("awardCredits", userLogin, a.changes = 1)
                          EXCEPT !.count = count]
    /\ UNCHANGED <<others, driver, spent, calls, reqs>>

DeductCall(userLogin) ==
    /\ LET d == deductCredit(Db, userLogin)
       IN  /\ credits' = d.db.credits
           /\ credit_events' = d.db.credit_events
           /\ spent' = [spent EXCEPT ![userLogin] = @ + (IF d.ok THEN 1 ELSE 0)]
           /\ last' = Returned("deductCredit", userLogin, d.ok)
    /\ UNCHANGED <<others, driver, awarded, calls, reqs>>

\* Mutant: the read first makes sure that the row exists (INSERT OR IGNORE
\* with remaining 0).
GetCreditsCall_Inserts(userLogin) ==
    /\ last' = [Returned("getCredits", userLogin, TRUE)
                   EXCEPT !.remaining = getCredits(Db, userLogin)]
    /\ credits' = stmtUpsertCredits(credits, userLogin, getCredits(Db, userLogin))
    /\ UNCHANGED <<others, driver, credit_events, awarded, spent, calls, reqs>>

\* getCredits(userLogin), called by itself (the credits endpoint, tests).
GetCreditsCall(userLogin) ==
    /\ last' = [Returned("getCredits", userLogin, TRUE)
                   EXCEPT !.remaining = getCredits(Db, userLogin)]
    /\ UNCHANGED <<others, driver, credits, credit_events, awarded, spent, calls, reqs>>

ClearCall ==
    /\ credits' = clearCreditStore(Db).credits
    /\ credit_events' = clearCreditStore(Db).credit_events
    /\ awarded' = Zero
    /\ spent' = Zero
    /\ last' = Returned("clearCreditStore", Undefined, credit_events # {})
    /\ UNCHANGED <<others, driver, calls, reqs>>

\* An award during which the store fails.
AwardCallFails(userLogin, stripeSessionId, count, awardedAt, at) ==
    /\ awarded[userLogin] + count <= MaxAwarded
    /\ LET a == awardCreditsFails(Db, userLogin, stripeSessionId, count,
                                  awardedAt, at)
       IN  /\ credits' = a.db.credits
           /\ credit_events' = a.db.credit_events
           /\ awarded' = [awarded EXCEPT ![userLogin] =
                              @ + (IF a.changes = 1 THEN count ELSE 0)]
           /\ last' = [Returned("awardCredits", userLogin, a.changes = 1)
                          EXCEPT !.count = count]
    /\ UNCHANGED <<others, driver, spent, calls, reqs>>

InitLedger ==
    /\ driver \in Drivers
    /\ IdleOthers
    /\ credits = EmptyCredits
    /\ credit_events = {}
    /\ awarded = Zero
    /\ spent = Zero
    /\ last = NoCall
    /\ calls = NoCalls
    /\ reqs = NoReqs

NextLedger ==
    \/ \E u \in Principals, s \in Refs, n \in Counts, t \in Times : AwardCall(u, s, n, t)
    \/ \E u \in Principals : DeductCall(u)
    \/ \E u \in Principals : GetCreditsCall(u)
    \/ ClearCall

SpecLedger == InitLedger /\ [][NextLedger]_vars

\* The ledger API with a store that can fail during an award.
NextLedgerFails ==
    \/ NextLedger
    \/ \E u \in Principals, s \in Refs, n \in Counts, t \in Times,
          at \in DOMAIN Statements : AwardCallFails(u, s, n, t, at)

SpecLedgerFails == InitLedger /\ [][NextLedgerFails]_vars

(***************************************************************************)
(* Calls issued together: every pending call runs to completion in one     *)
(* step, in any order.                                                     *)
(***************************************************************************)
Pending(op, userLogin, stripeSessionId) ==
    [op |-> op, userLogin |-> userLogin, stripeSessionId |-> stripeSessionId,
     state |-> "pending", ok |-> FALSE]

Min(a, b) == IF a <= b THEN a ELSE b

CallsOn(p) == {i \in DOMAIN calls : calls[i].userLogin = p}
Succeeded(p) == {i \in CallsOn(p) : calls[i].state = "returned" /\ calls[i].ok}
AllReturned == \A i \in DOMAIN calls : calls[i].state = "returned"

\* The store after dave was awarded b1 credits and eve b2 for earlier
\* purchases.
Funded(b1, b2) ==
    awardCredits(awardCredits(EmptyDb, "dave", "cs_prev_dave", b1, 1).db,
                 "eve", "cs_prev_eve", b2, 1).db

\* k deductCredit calls against accounts that were awarded b credits each.
InitDeductRace ==
    /\ driver \in Drivers
    /\ IdleOthers
    /\ \E b1 \in 0..MaxRaceBalance, b2 \in 0..MaxRaceBalance :
          /\ credits = Funded(b1, b2).credits
          /\ credit_events = Funded(b1, b2).credit_events
          /\ awarded = [k \in Keys |-> getCredits(Funded(b1, b2), k)]
    /\ spent = Zero
    /\ calls \in [1..NumCalls -> {Pending("deductCredit", p, Undefined) : p \in Principals}]
    /\ last = NoCall
    /\ reqs = NoReqs

RunDeduct(i) ==
    /\ calls[i].state = "pending"
    /\ calls[i].op = "deductCredit"
    /\ LET r == deductCredit(Db, calls[i].userLogin)
       IN  /\ SetDb(r.db)
           /\ calls' = [calls EXCEPT ![i].state = "returned", ![i].ok = r.ok]
    /\ UNCHANGED <<others, driver, last, reqs>>

NextDeductRace == \E i \in DOMAIN calls : RunDeduct(i)

SpecDeductRace == InitDeductRace /\ [][NextDeductRace]_vars

\* k awardCredits calls with the default count, as a payment webhook that
\* fires more than once (or beside another confirmation of the same payment)
\* makes them.
InitAwardRace ==
    /\ driver \in Drivers
    /\ IdleOthers
    /\ credits = EmptyCredits
    /\ credit_events = {}
    /\ awarded = Zero
    /\ spent = Zero
    /\ calls \in [1..NumCalls ->
                    {Pending("awardCredits", p, s) : p \in Principals, s \in Refs}]
    /\ last = NoCall
    /\ reqs = NoReqs

RunAward(i, awardedAt) ==
    /\ calls[i].state = "pending"
    /\ calls[i].op = "awardCredits"
    /\ LET r == awardCredits(Db, calls[i].userLogin, calls[i].stripeSessionId,
                             CREDITS_PER_PURCHASE, awardedAt)
       IN  /\ SetDb(r.db)
           /\ calls' = [calls EXCEPT ![i].state = "returned", ![i].ok = ~r.threw]
    /\ UNCHANGED <<others, driver, last, reqs>>

NextAwardRace == \E i \in DOMAIN calls, t \in Times : RunAward(i, t)

SpecAwardRace == InitAwardRace /\ [][NextAwardRace]_vars

\* Awards and deducts issued together.  A call is kept with its count, and
\* when it has returned with ok: the return value of deductCredit, for an
\* award whether its event row was written (result.changes = 1).
Issued(op, userLogin, stripeSessionId, count) ==
    [op |-> op, userLogin |-> userLogin, stripeSessionId |-> stripeSessionId,
     count |-> count, state |-> "pending", ok |-> FALSE]

IssuedCalls ==
    {Issued("awardCredits", p, s, CREDITS_PER_PURCHASE) : p \in Principals, s \in Refs}
        \cup {Issued("deductCredit", p, Undefined, 0) : p \in Principals}

\* Call 0 is the earlier award that gave dave his b credits; it has returned.
InitMixedRace ==
    /\ driver \in Drivers
    /\ IdleOthers
    /\ \E b \in 0..MaxRaceBalance, issued \in [1..NumCalls -> IssuedCalls] :
          /\ credits = Funded(b, 0).credits
          /\ credit_events = Funded(b, 0).credit_events
          /\ awarded = [k \in Keys |-> getCredits(Funded(b, 0), k)]
          /\ calls = [i \in 0..NumCalls |->
                         IF i = 0
                         THEN [Issued("awardCredits", "dave", "cs_prev_dave", b)
                                  EXCEPT !.state = "returned", !.ok = TRUE]
                         ELSE issued[i]]
    /\ spent = Zero
    /\ last = NoCall
    /\ reqs = NoReqs

RunIssuedAward(i, awardedAt) ==
    /\ calls[i].state = "pending"
    /\ calls[i].op = "awardCredits"
    /\ LET a == awardCredits(Db, calls[i].userLogin, calls[i].stripeSessionId,
                             calls[i].count, awardedAt)
       IN  /\ SetDb(a.db)
           /\ calls' = [calls EXCEPT ![i].state = "returned",
                                     ![i].ok = (a.changes = 1)]
    /\ UNCHANGED <<others, driver, last, reqs>>

RunIssuedDeduct(i) ==
    /\ calls[i].state = "pending"
    /\ calls[i].op = "deductCredit"
    /\ LET d == deductCredit(Db, calls[i].userLogin)
       IN  /\ SetDb(d.db)
           /\ calls' = [calls EXCEPT ![i].state = "returned", ![i].ok = d.ok]
    /\ UNCHANGED <<others, driver, last, reqs>>

NextMixedRace ==
    \/ \E i \in DOMAIN calls, t \in Times : RunIssuedAward(i, t)
    \/ \E i \in DOMAIN calls : RunIssuedDeduct(i)

SpecMixedRace == InitMixedRace /\ [][NextMixedRace]_vars

(***************************************************************************)
(* The payment verifier (Stripe): what sessions.retrieve reports           *)
(***************************************************************************)
\* The session cs_1 is paid and was bought by eve; cs_2 was opened by dave
\* and is not paid.
session(sessionId) ==
    IF sessionId = "cs_1"
    THEN [payment_status |-> "paid", user_login |-> "eve"]
    ELSE [payment_status |-> "unpaid", user_login |-> "dave"]

\* How a verification can end: getStripe() gave no client; retrieve rejected
\* (session not found, API error, the client's timeout); retrieve resolved.
Responses == {"no_stripe", "rejected", "resolved"}

(***************************************************************************)
(* generateMiddleware                                                      *)
(***************************************************************************)
NoLogin == "anonymous"
NoRef == "none"

\* A request as it arrives (method POST unless said otherwise; the handler
\* of a POST has called readJsonBody): the login of the caller's session (the middleware
\* has no option that reads it), and the body: _stripe_session_id, whether
\* _premium: true is present, whether the rest passes validateEvidence.
\* ops is the sequence of calls the handler has made for the request, in the
\* order of the code; payload the control fields in the object it calls
\* evidence; credits_remaining = -1 stands for a response without that field;
\* failed the ledger function during which the store failed; pipeline how the
\* background run of the job ended.
Request(login, sid, premiumFlag, valid) ==
    [pc |-> "readJsonBody", method |-> "POST", login |-> login, sid |-> sid,
     premiumFlag |-> premiumFlag, valid |-> valid,
     response |-> "none", verified |-> FALSE, retrieves |-> 0,
     debited |-> FALSE, status |-> 0, error |-> "",
     job |-> "none", premium |-> FALSE, payload |-> {},
     credits_remaining |-> -1, ops |-> <<>>,
     failed |-> "none", pipeline |-> "none"]

\* The handler made the calls log, in that order.
Did(req, log) == [req EXCEPT !.ops = @ \o log]

New == [Request(NoLogin, NoRef, FALSE, FALSE) EXCEPT !.pc = "new"]

\* The requests tried: the buyer of the paid session, another user and an
\* anonymous caller presenting it; a user presenting his unpaid session;
\* _premium alone, with and without a login; no control field; both control
\* fields; and a body that fails validation.
Shapes ==
    {Request("eve", "cs_1", FALSE, TRUE),
     Request("dave", "cs_1", FALSE, TRUE),
     Request(NoLogin, "cs_1", FALSE, TRUE),
     Request("dave", "cs_2", FALSE, TRUE),
     Request("dave", NoRef, TRUE, TRUE),
     Request(NoLogin, NoRef, TRUE, TRUE),
     Request("eve", NoRef, FALSE, TRUE),
     Request("eve", "cs_1", TRUE, TRUE),
     Request("eve", "cs_1", TRUE, FALSE)}

\* The control fields among the keys of the body.
ControlFields(req) ==
    (IF req.sid # NoRef THEN {"_stripe_session_id"} ELSE {}) \cup
    (IF req.premiumFlag THEN {"_premium"} ELSE {})

\* const { _stripe_session_id: rawSessionId, ...evidence } = body: the control
\* fields still in the object given to validateEvidence and runPipeline.
evidence(req) == ControlFields(req) \ {"_stripe_session_id"}

\* Mutant: the job is created before the request is decided, also when it
\* is then rejected.
Reject_JobFirst(req, status, error) ==
    [Did(req, <<"createJob", "respondJson">>) EXCEPT
        !.pc = "done", !.status = status, !.error = error]

\* Mutant: the error is written by the branch and once more by the catch.
Reject_Twice(req, status, error) ==
    [Did(req, <<"respondJson", "respondJson">>) EXCEPT
        !.pc = "done", !.status = status, !.error = error]

\* respondJson(res, status, {error}); return
Reject(req, status, error) ==
    [Did(req, <<"respondJson">>) EXCEPT
        !.pc = "done", !.status = status, !.error = error]

\* Mutant: the response always carries credits_remaining, 0 for a standard
\* run.
Accept_AlwaysBalance(req, premium, creditsRemaining) ==
    [Did(req, <<"createJob", "runPipeline", "respondJson">>) EXCEPT
        !.pc = "done", !.status = 202,
        !.job = IF premium THEN "generate-premium" ELSE "generate",
        !.premium = premium,
        !.payload = evidence(req),
        !.credits_remaining = IF premium THEN creditsRemaining ELSE 0]

\* Mutant: the session is looked up at Stripe once more before the job is
\* created.
Accept_Reverifies(req, premium, creditsRemaining) ==
    [Did(req, <<"retrieve", "createJob", "runPipeline", "respondJson">>) EXCEPT
        !.pc = "done", !.status = 202,
        !.retrieves = @ + 1,
        !.job = IF premium THEN "generate-premium" ELSE "generate",
        !.premium = premium,
        !.payload = evidence(req),
        !.credits_remaining = creditsRemaining]

\* createJob, runInBackground(runPipeline(evidence, {premium})), respondJson 202
Accept(req, premium, creditsRemaining) ==
    [Did(req, <<"createJob", "runPipeline", "respondJson">>) EXCEPT
        !.pc = "done", !.status = 202,
        !.job = IF premium THEN "generate-premium" ELSE "generate",
        !.premium = premium,
        !.payload = evidence(req),
        !.credits_remaining = creditsRemaining]

\* Mutant: payment_status is not looked at, every session that retrieve
\* finds is credited and verified.
verifyStripeSession_AnyStatus(db, sessionId, response, awardedAt) ==
    IF response = "resolved"
    THEN LET a == awardCredits(db, sessionId, Undefined, CREDITS_PER_PURCHASE,
                               awardedAt)
         IN  [verified |-> TRUE, threw |-> FALSE, db |-> a.db]
    ELSE [verified |-> FALSE, threw |-> FALSE, db |-> db]

\* Mutant: no try/catch around retrieve, a rejection leaves the function as
\* an exception.
verifyStripeSession_NoCatch(db, sessionId, response, awardedAt) ==
    IF response = "no_stripe"
    THEN [verified |-> FALSE, threw |-> FALSE, db |-> db]
    ELSE IF response = "rejected"
    THEN [verified |-> FALSE, threw |-> TRUE, db |-> db]
    ELSE IF session(sessionId).payment_status = "paid"
    THEN LET a == awardCredits(db, sessionId, Undefined, CREDITS_PER_PURCHASE,
                               awardedAt)
         IN  [verified |-> ~a.threw, threw |-> FALSE, db |-> a.db]
    ELSE [verified |-> FALSE, threw |-> FALSE, db |-> db]

\* verifyStripeSession(sessionId, getStripe) once the verifier has answered.
\* awardCredits(sessionId) passes the session id as userLogin and nothing as
\* stripeSessionId: with a driver that refuses undefined the call throws
\* inside the try and false is returned; with one that binds NULL the award
\* is made to the account named by the session id, at every verification.
verifyStripeSession(db, sessionId, response, awardedAt) ==
    IF response = "no_stripe"
    THEN [verified |-> FALSE, threw |-> FALSE, db |-> db]
    ELSE IF response = "rejected"
    THEN [verified |-> FALSE, threw |-> FALSE, db |-> db]
    ELSE IF session(sessionId).payment_status = "paid"
    THEN LET a == awardCredits(db, sessionId, Undefined, CREDITS_PER_PURCHASE,
                               awardedAt)
         IN  [verified |-> ~a.threw, threw |-> FALSE, db |-> a.db]
    ELSE [verified |-> FALSE, threw |-> FALSE, db |-> db]

\* The premium branch once debited is known: lines 107-112.
Debited(req, debit) ==
    IF ~debit.ok
    THEN Reject(req, 402, "No premium credits remaining")
    ELSE Accept([Did(req, <<"getCredits">>) EXCEPT !.debited = TRUE], TRUE,
                getCredits(debit.db, req.sid))

\* Mutant: the premium block runs before the validation, an invalid body
\* is rejected after its deductCredit.
BodyRead_DeductsFirst(r, stripe) ==
    /\ reqs[r].pc = "readJsonBody"
    /\ LET req == [Did(reqs[r], <<"validateEvidence">>) EXCEPT
                       !.payload = evidence(reqs[r])]
           debit == deductCredit(Db, req.sid)
           slow == Did(req, <<"deductCredit", "getStripe">>)
       IN  IF ~req.valid
           THEN /\ reqs' = [reqs EXCEPT ![r] =
                       Reject(Did(req, <<"deductCredit">>), 400, "Invalid evidence")]
                /\ SetDb(debit.db)
           ELSE IF req.sid = NoRef
           THEN /\ reqs' = [reqs EXCEPT ![r] = Accept(req, FALSE, -1)]
                /\ UNCHANGED <<others, driver, credits, credit_events, awarded, spent>>
           ELSE IF debit.ok
           THEN /\ reqs' = [reqs EXCEPT ![r] =
                       Debited(Did(req, <<"deductCredit">>), debit)]
                /\ SetDb(debit.db)
           ELSE /\ reqs' = [reqs EXCEPT ![r] =
                       IF stripe
                       THEN [Did(slow, <<"retrieve">>) EXCEPT
                                !.pc = "retrieve", !.retrieves = @ + 1]
                       ELSE [slow EXCEPT !.pc = "verified", !.response = "no_stripe",
                                         !.verified =
                                             verifyStripeSession(Db, req.sid,
                                                 "no_stripe", 1).verified]]
                /\ UNCHANGED <<others, driver, credits, credit_events, awarded, spent>>
    /\ UNCHANGED <<others, driver, last, calls>>


\* readJsonBody has resolved: validation, the fast path, and the call of
\* verifyStripeSession up to its first await.
BodyRead(r, stripe) ==
    /\ reqs[r].pc = "readJsonBody"
    /\ LET req == [Did(reqs[r], <<"validateEvidence">>) EXCEPT
                       !.payload = evidence(reqs[r])]
           debit == deductCredit(Db, req.sid)
           slow == Did(req, <<"deductCredit", "getStripe">>)
       IN  IF ~req.valid
           THEN /\ reqs' = [reqs EXCEPT ![r] = Reject(req, 400, "Invalid evidence")]
                /\ UNCHANGED <<others, driver, credits, credit_events, awarded, spent>>
           ELSE IF req.sid = NoRef
           THEN /\ reqs' = [reqs EXCEPT ![r] = Accept(req, FALSE, -1)]
                /\ UNCHANGED <<others, driver, credits, credit_events, awarded, spent>>
           ELSE IF debit.ok
           THEN /\ reqs' = [reqs EXCEPT ![r] =
                       Debited(Did(req, <<"deductCredit">>), debit)]
                /\ SetDb(debit.db)
           ELSE /\ reqs' = [reqs EXCEPT ![r] =
                       IF stripe
                       THEN [Did(slow, <<"retrieve">>) EXCEPT
                                !.pc = "retrieve", !.retrieves = @ + 1]
                       ELSE [slow EXCEPT !.pc = "verified", !.response = "no_stripe",
                                         !.verified =
                                             verifyStripeSession(Db, req.sid,
                                                 "no_stripe", 1).verified]]
                /\ UNCHANGED <<others, driver, credits, credit_events, awarded, spent>>
    /\ UNCHANGED <<others, driver, last, calls>>

\* readJsonBody has rejected (the body is not JSON): the catch answers 500.
BodyFails(r) ==
    /\ reqs[r].pc = "readJsonBody"
    /\ reqs' = [reqs EXCEPT ![r] = Reject(reqs[r], 500, "Pipeline failed")]
    /\ UNCHANGED <<others, driver, credits, credit_events, awarded, spent, last, calls>>

\* stripe.checkout.sessions.retrieve has settled; verifyStripeSession runs to
\* its return.  An exception leaving it is answered by the middleware's
\* catch with 500.
RetrieveSettles(r, response, awardedAt) ==
    /\ reqs[r].pc = "retrieve"
    /\ response \in {"rejected", "resolved"}
    /\ LET req == IF response = "resolved" /\ session(reqs[r].sid).payment_status = "paid"
                  THEN Did(reqs[r], <<"awardCredits">>)
                  ELSE reqs[r]
           v == verifyStripeSession(Db, req.sid, response, awardedAt)
       IN  /\ SetDb(v.db)
           /\ reqs' = [reqs EXCEPT ![r] =
                  IF v.threw
                  THEN Reject([req EXCEPT !.response = response], 500, "Pipeline failed")
                  ELSE [req EXCEPT !.pc = "verified", !.response = response,
                                   !.verified = v.verified]]
    /\ UNCHANGED <<others, driver, last, calls>>

\* The middleware continues after await verifyStripeSession(...).
Resume(r) ==
    /\ reqs[r].pc = "verified"
    /\ LET req == reqs[r]
           debit == deductCredit(Db, req.sid)
       IN  IF ~req.verified
           THEN /\ reqs' = [reqs EXCEPT ![r] =
                       Reject(req, 402, "Payment required or session not found")]
                /\ UNCHANGED <<others, driver, credits, credit_events, awarded, spent>>
           ELSE /\ reqs' = [reqs EXCEPT ![r] =
                       Debited(Did(req, <<"deductCredit">>), debit)]
                /\ SetDb(debit.db)
    /\ UNCHANGED <<others, driver, last, calls>>

\* A POST arrives; requests are taken in the order of their slots.
Receive(r, shape) ==
    /\ reqs[r].pc = "new"
    /\ \A q \in DOMAIN reqs : q < r => reqs[q].pc # "new"
    /\ reqs' = [reqs EXCEPT ![r] = shape]
    /\ UNCHANGED <<others, driver, credits, credit_events, awarded, spent, last, calls>>

Init ==
    /\ driver \in Drivers
    /\ IdleOthers
    /\ credits = EmptyCredits
    /\ credit_events = {}
    /\ awarded = Zero
    /\ spent = Zero
    /\ last = NoCall
    /\ calls = NoCalls
    /\ reqs = [r \in 1..NumReq |-> New]

\* The payment webhook credits a paid session to its buyer (awardCredits) or,
\* in the legacy form, to the session itself (markSessionPaid).
PaidSessions == {s \in Refs : session(s).payment_status = "paid"}

WebhookAwards(s) ==
    /\ awarded[session(s).user_login] + CREDITS_PER_PURCHASE <= MaxAwarded
    /\ SetDb(awardCredits(Db, session(s).user_login, s, CREDITS_PER_PURCHASE, 1).db)
    /\ UNCHANGED <<others, driver, last, calls, reqs>>

WebhookMarksPaid(s) ==
    /\ awarded[s] + CREDITS_PER_PURCHASE <= MaxAwarded
    /\ SetDb(markSessionPaid(Db, s, 1).db)
    /\ UNCHANGED <<others, driver, last, calls, reqs>>

Next ==
    \/ \E s \in PaidSessions : WebhookAwards(s)
    \/ \E s \in PaidSessions : WebhookMarksPaid(s)
    \/ \E r \in DOMAIN reqs, shape \in Shapes : Receive(r, shape)
    \/ \E r \in DOMAIN reqs, stripe \in BOOLEAN : BodyRead(r, stripe)
    \/ \E r \in DOMAIN reqs : BodyFails(r)
    \/ \E r \in DOMAIN reqs, response \in Responses, t \in Times :
           RetrieveSettles(r, response, t)
    \/ \E r \in DOMAIN reqs : Resume(r)

Spec == Init /\ [][Next]_vars

\* The confirmations of a payment that reach the ledger through its current
\* API: the webhook's awardCredits for the buyer, and the inline verification
\* of the generate handler.
NextConfirm ==
    \/ \E s \in PaidSessions : WebhookAwards(s)
    \/ \E r \in DOMAIN reqs, shape \in Shapes : Receive(r, shape)
    \/ \E r \in DOMAIN reqs, stripe \in BOOLEAN : BodyRead(r, stripe)
    \/ \E r \in DOMAIN reqs : BodyFails(r)
    \/ \E r \in DOMAIN reqs, response \in Responses, t \in Times :
           RetrieveSettles(r, response, t)
    \/ \E r \in DOMAIN reqs : Resume(r)

SpecConfirm == Init /\ [][NextConfirm]_vars

(***************************************************************************)
(* The handler when the store fails during one of its ledger calls         *)
(***************************************************************************)
\* err.message of the exception that better-sqlite3 throws.
SqliteError == "SqliteError"

\* The premium branch when the store fails in deductCredit (lines 97, 105) or,
\* after a deductCredit that returned true, in getCredits (line 112): the
\* exception leaves the try block and the catch answers 500.
StoreFails(req, op) ==
    IF op = "deductCredit"
    THEN Reject([Did(req, <<"deductCredit">>) EXCEPT !.failed = op],
                500, SqliteError)
    ELSE Reject([Did(req, <<"deductCredit", "getCredits">>) EXCEPT
                    !.debited = TRUE, !.failed = op],
                500, SqliteError)

\* The store fails on the fast path.
FastPathFails(r, op) ==
    /\ reqs[r].pc = "readJsonBody"
    /\ reqs[r].valid
    /\ reqs[r].sid # NoRef
    /\ op \in {"deductCredit", "getCredits"}
    /\ LET req == [Did(reqs[r], <<"validateEvidence">>) EXCEPT
                       !.payload = evidence(reqs[r])]
           debit == deductCredit(Db, req.sid)
       IN  /\ op = "getCredits" => debit.ok
           /\ reqs' = [reqs EXCEPT ![r] = StoreFails(req, op)]
           /\ SetDb(IF op = "getCredits" THEN debit.db ELSE Db)
    /\ UNCHANGED <<others, driver, last, calls>>

\* The store fails after a verification that returned true.
SlowPathFails(r, op) ==
    /\ reqs[r].pc = "verified"
    /\ reqs[r].verified
    /\ op \in {"deductCredit", "getCredits"}
    /\ LET debit == deductCredit(Db, reqs[r].sid)
       IN  /\ op = "getCredits" => debit.ok
           /\ reqs' = [reqs EXCEPT ![r] = StoreFails(reqs[r], op)]
           /\ SetDb(IF op = "getCredits" THEN debit.db ELSE Db)
    /\ UNCHANGED <<others, driver, last, calls>>

\* retrieve has reported the session as paid and the store fails in
\* awardCredits, at its statement number at: the exception is thrown inside
\* the try of verifyStripeSession, whose catch takes it for a failed lookup,
\* and false is returned.  stmtInsertEvent() prepares its statement before
\* run() binds the values, so a failure there comes before any TypeError of
\* the bind.
AwardFails(r, awardedAt, at) ==
    /\ reqs[r].pc = "retrieve"
    /\ session(reqs[r].sid).payment_status = "paid"
    /\ Statements[at] = "stmtInsertEvent" \/ Bindable(Undefined)
    /\ LET a == awardCreditsFails(Db, reqs[r].sid, Undefined,
                                  CREDITS_PER_PURCHASE, awardedAt, at)
       IN  /\ a.threw
           /\ SetDb(a.db)
           /\ reqs' = [reqs EXCEPT ![r] =
                  [Did(reqs[r], <<"awardCredits">>) EXCEPT
                      !.pc = "verified", !.response = "resolved",
                      !.verified = FALSE, !.failed = "awardCredits"]]
    /\ UNCHANGED <<others, driver, last, calls>>

NextStoreFails ==
    \/ NextConfirm
    \/ \E r \in DOMAIN reqs, op \in {"deductCredit", "getCredits"} :
           FastPathFails(r, op)
    \/ \E r \in DOMAIN reqs, op \in {"deductCredit", "getCredits"} :
           SlowPathFails(r, op)
    \/ \E r \in DOMAIN reqs, t \in Times, at \in DOMAIN Statements :
           AwardFails(r, t, at)

SpecStoreFails == Init /\ [][NextStoreFails]_vars

(***************************************************************************)
(* The background run of the job                                           *)
(***************************************************************************)
\* Mutant: a premium run that fails gives its credit back.
PipelineSettles_Refunds(r, outcome) ==
    /\ reqs[r].job # "none"
    /\ reqs[r].pipeline = "none"
    /\ reqs' = [reqs EXCEPT ![r].pipeline = outcome]
    /\ SetDb(IF outcome = "rejected" /\ reqs[r].premium
             THEN [credits |-> stmtUpsertCredits(credits, reqs[r].sid,
                                                 getCredits(Db, reqs[r].sid) + 1),
                   credit_events |-> credit_events]
             ELSE Db)
    /\ UNCHANGED <<others, driver, last, calls>>

\* runInBackground(jobId, report => runPipeline(evidence, {premium, ...})):
\* the promise of runPipeline resolves or rejects after the response was
\* sent.  The function handed to runInBackground calls nothing but
\* runPipeline and report.
PipelineSettles(r, outcome) ==
    /\ reqs[r].job # "none"
    /\ reqs[r].pipeline = "none"
    /\ reqs' = [reqs EXCEPT ![r].pipeline = outcome]
    /\ UNCHANGED <<others, driver, credits, credit_events, awarded, spent, last, calls>>

\* Requests of eve that have arrived, each with her paid session cs_1 or
\* without a control field; the webhook may credit the purchase in either
\* form; every job's pipeline ends one way or the other.
InitPipeline ==
    /\ driver \in Drivers
    /\ IdleOthers
    /\ credits = EmptyCredits
    /\ credit_events = {}
    /\ awarded = Zero
    /\ spent = Zero
    /\ last = NoCall
    /\ calls = NoCalls
    /\ reqs \in [1..NumReq -> {Request("eve", "cs_1", FALSE, TRUE),
                               Request("eve", NoRef, FALSE, TRUE)}]

NextPipeline ==
    \/ \E s \in PaidSessions : WebhookAwards(s)
    \/ \E s \in PaidSessions : WebhookMarksPaid(s)
    \/ \E r \in DOMAIN reqs, stripe \in BOOLEAN : BodyRead(r, stripe)
    \/ \E r \in DOMAIN reqs, response \in Responses, t \in Times :
           RetrieveSettles(r, response, t)
    \/ \E r \in DOMAIN reqs : Resume(r)
    \/ \E r \in DOMAIN reqs, outcome \in {"resolved", "rejected"} :
           PipelineSettles(r, outcome)

SpecPipeline == InitPipeline /\ [][NextPipeline]_vars

(***************************************************************************)
(* Every request from arrival to its end                                   *)
(***************************************************************************)
\* A request with another method than POST, before the handler has run.
NonPostRequest ==
    [Request(NoLogin, NoRef, FALSE, FALSE) EXCEPT !.pc = "received", !.method = "GET"]

\* if (req.method !== "POST") { next(); return; }
NonPost(r) ==
    /\ reqs[r].pc = "received"
    /\ reqs[r].method # "POST"
    /\ reqs' = [reqs EXCEPT ![r] = [Did(reqs[r], <<"next">>) EXCEPT !.pc = "done"]]
    /\ UNCHANGED <<others, driver, credits, credit_events, awarded, spent, last, calls>>

\* The requests followed to their end: a paid and an unpaid session, no
\* control field, an invalid body, and a request that is not a POST.
RespondShapes ==
    {Request("eve", "cs_1", FALSE, TRUE),
     Request("dave", "cs_2", FALSE, TRUE),
     Request("eve", NoRef, FALSE, TRUE),
     Request("eve", "cs_1", TRUE, FALSE),
     NonPostRequest}

InitRespond ==
    /\ driver \in Drivers
    /\ IdleOthers
    /\ credits = EmptyCredits
    /\ credit_events = {}
    /\ awarded = Zero
    /\ spent = Zero
    /\ last = NoCall
    /\ calls = NoCalls
    /\ reqs \in [1..NumReq -> RespondShapes]

\* The steps of the handler of request r, the failures of the store in its
\* ledger calls included.
HandlerStep(r) ==
    \/ NonPost(r)
    \/ \E stripe \in BOOLEAN : BodyRead(r, stripe)
    \/ BodyFails(r)
    \/ \E response \in Responses, t \in Times : RetrieveSettles(r, response, t)
    \/ Resume(r)
    \/ \E op \in {"deductCredit", "getCredits"} : FastPathFails(r, op)
    \/ \E op \in {"deductCredit", "getCredits"} : SlowPathFails(r, op)
    \/ \E t \in Times, at \in DOMAIN Statements : AwardFails(r, t, at)

NextRespond == \E r \in DOMAIN reqs : HandlerStep(r)

\* readJsonBody and retrieve settle, and Node runs the continuation of a
\* settled await: a handler that can take a step takes one.
FairRespond == \A r \in 1..NumReq : WF_vars(HandlerStep(r))

SpecRespond == InitRespond /\ [][NextRespond]_vars /\ FairRespond

\* NumRace premium requests of dave, who holds b credits and has no paid
\* session to present: some carry _premium: true alone, the others his unpaid
\* session cs_2.  All bodies have arrived; the handlers run interleaved.
RaceShape(r, flagged) ==
    IF r <= flagged
    THEN Request("dave", NoRef, TRUE, TRUE)
    ELSE Request("dave", "cs_2", TRUE, TRUE)

InitGateRace ==
    /\ driver \in Drivers
    /\ IdleOthers
    /\ \E b \in 0..MaxRaceBalance :
          /\ credits = Funded(b, 0).credits
          /\ credit_events = Funded(b, 0).credit_events
          /\ awarded = [k \in Keys |-> getCredits(Funded(b, 0), k)]
    /\ spent = Zero
    /\ last = NoCall
    /\ calls = NoCalls
    /\ \E flagged \in 0..NumRace :
          reqs = [r \in 1..NumRace |-> RaceShape(r, flagged)]

NextGateRace ==
    \/ \E r \in DOMAIN reqs, stripe \in BOOLEAN : BodyRead(r, stripe)
    \/ \E r \in DOMAIN reqs, response \in Responses, t \in Times :
           RetrieveSettles(r, response, t)
    \/ \E r \in DOMAIN reqs : Resume(r)

SpecGateRace == InitGateRace /\ [][NextGateRace]_vars

(***************************************************************************)
(* Properties of the ledger                                                *)
(***************************************************************************)
\* C1 Non-negativity: after any sequence of awardCredits (count >= 0),
\* deductCredit and clearCreditStore calls, every row of credits has
\* remaining >= 0.
C1_NonNegative == \A k \in DOMAIN credits : credits[k] >= 0

\* A deductCredit on an exhausted account returned false and left it at 0.
C1_Witness ==
    /\ last.op = "deductCredit"
    /\ ~last.ok
    /\ last.userLogin \in DOMAIN credits
    /\ credits[last.userLogin] = 0

\* C2 Idempotent award: from every reachable store, for every principal,
\* reference, count and pair of call times, a second awardCredits with the
\* same arguments leaves balances and credit_events as the first call left
\* them.
C2_IdempotentAward ==
    \A p \in Principals, s \in Refs, n \in Counts, t1 \in Times, t2 \in Times :
        LET once == awardCredits(Db, p, s, n, t1).db
        IN  awardCredits(once, p, s, n, t2).db = once

\* The last call was an award that found its reference already processed,
\* and the account still holds what the first award gave it.
C2_Witness ==
    /\ last.op = "awardCredits"
    /\ ~last.ok
    /\ \E e \in credit_events : e.user_login = last.userLogin
    /\ getCredits(Db, last.userLogin) > 0

\* C3 CreditEvent uniqueness and immutability.
EventsUnique ==
    \A e1 \in credit_events, e2 \in credit_events :
        e1.stripe_session_id = e2.stripe_session_id => e1 = e2

LaterAwardIsNoop ==
    \A s \in Refs :
        (\E e \in credit_events : e.stripe_session_id = s) =>
            \A u \in Keys, n \in Counts, t \in Times :
                awardCredits(Db, u, s, n, t).db = Db

EventsKept ==
    \/ credit_events \subseteq credit_events'
    \/ /\ last'.op = "clearCreditStore"
       /\ credit_events' = {}

\* C3: at most one credit_events row per stripe_session_id in every reachable
\* state; a row once written stays as written (user_login and awarded_at)
\* until clearCreditStore; an award naming an already processed reference,
\* for any account and count, changes neither table.
C3_EventUniqueImmutable ==
    /\ [](EventsUnique /\ LaterAwardIsNoop)
    /\ [][EventsKept]_vars

\* An award for another account than the one the reference was processed for
\* has just been ignored.
C3_Witness ==
    /\ last.op = "awardCredits"
    /\ ~last.ok
    /\ \E e \in credit_events : e.user_login # last.userLogin
    /\ \A e \in credit_events : e.user_login # last.userLogin

\* C4 Atomic deduct: when k deductCredit calls issued together against an
\* account holding b credits have all returned, exactly min(b, k) of them
\* returned true and the account holds b - min(b, k); with b = 1 and k = 2
\* that is one true, one false and a balance of 0.  Before they have all
\* returned, never more than b have succeeded.
C4_AtomicDeduct ==
    \A p \in Principals :
        /\ Cardinality(Succeeded(p)) <= awarded[p]
        /\ getCredits(Db, p) = awarded[p] - Cardinality(Succeeded(p))
        /\ AllReturned =>
               Cardinality(Succeeded(p)) = Min(awarded[p], Cardinality(CallsOn(p)))

\* A balance of exactly 1 met at least two calls: one true, the rest false,
\* balance 0.
C4_Witness ==
    /\ AllReturned
    /\ \E p \in Principals :
          /\ awarded[p] = 1
          /\ Cardinality(CallsOn(p)) >= 2
          /\ Cardinality(Succeeded(p)) = 1
          /\ credits[p] = 0

RefsCalled == {calls[i].stripeSessionId : i \in {j \in DOMAIN calls : calls[j].state = "returned"}}
EventsOf(s) == {e \in credit_events : e.stripe_session_id = s}
EventsFor(p) == {e \in credit_events : e.user_login = p}

\* Calls of awardCredits that name the same reference (the webhook firing
\* more than once): however they interleave, each reference that a returned
\* call named has exactly one credit_events row, written for the account one
\* of those calls named, and every account holds exactly count
\* (CREDITS_PER_PURCHASE) credits per row written for it.
AwardCallsAtomic ==
    /\ \A s \in RefsCalled :
          /\ Cardinality(EventsOf(s)) = 1
          /\ \E e \in EventsOf(s), i \in DOMAIN calls :
                /\ calls[i].state = "returned"
                /\ calls[i].stripeSessionId = s
                /\ calls[i].userLogin = e.user_login
    /\ \A s \in Refs \ RefsCalled : EventsOf(s) = {}
    /\ \A p \in Keys :
          getCredits(Db, p) = CREDITS_PER_PURCHASE * Cardinality(EventsFor(p))

\* Two calls for the same reference have both returned: one row, one
\* increment.
AwardCallsRaced ==
    /\ AllReturned
    /\ \E i \in DOMAIN calls, j \in DOMAIN calls :
          /\ i # j
          /\ calls[i].stripeSessionId = calls[j].stripeSessionId
          /\ calls[i].userLogin = calls[j].userLogin
          /\ Cardinality(EventsOf(calls[i].stripeSessionId)) = 1
          /\ getCredits(Db, calls[i].userLogin) = CREDITS_PER_PURCHASE

(***************************************************************************)
(* Properties of the gate                                                  *)
(***************************************************************************)
\* The credit_events rows written on account of the payment s: the row keyed
\* by s, and the rows crediting the account named s.
RowsFor(s) == {e \in credit_events : s \in {e.stripe_session_id, e.user_login}}

\* C5 Atomic award: however the confirmations of one payment (the webhook's
\* award, the inline verifications of the generate handler) interleave, the
\* payment has at most one credit_events row and has been credited at most
\* once with count (CREDITS_PER_PURCHASE) credits.
C5_AtomicAward ==
    \A s \in PaidSessions :
        /\ Cardinality(RowsFor(s)) <= 1
        /\ awarded[session(s).user_login] + awarded[s] <= CREDITS_PER_PURCHASE

AllDone == \A r \in DOMAIN reqs : reqs[r].pc = "done"
PremiumAccepted == {r \in DOMAIN reqs : reqs[r].status = 202 /\ reqs[r].premium}
PaymentRequired == {r \in DOMAIN reqs : reqs[r].status = 402}

\* C6 Exactly-once under race: when dave holds exactly 1 credit and NumRace
\* (5) concurrent premium requests of his have all been answered, exactly one
\* was answered 202 with premium, the others 402, and his balance is 0.
C6_ExactlyOnce ==
    (AllDone /\ awarded["dave"] = 1) =>
        /\ Cardinality(PremiumAccepted) = 1
        /\ Cardinality(PaymentRequired) = NumRace - 1
        /\ getCredits(Db, "dave") = 0

RECURSIVE SumOver(_, _)
SumOver(f, S) ==
    IF S = {} THEN 0
    ELSE LET k == CHOOSE x \in S : TRUE IN f[k] + SumOver(f, S \ {k})

\* The accounts holding what p bought: p's own, and the sessions p paid for
\* (where the legacy webhook puts the credits).
AccountsOf(p) == {p} \cup {s \in Refs : session(s).user_login = p}
PremiumRuns(p) ==
    {r \in DOMAIN reqs : reqs[r].pc = "done" /\ reqs[r].premium /\ reqs[r].login = p}

\* C7 No unpaid premium: the pipeline runs with premium = true (job
\* generate-premium) only for a request whose own deductCredit returned true,
\* and no principal is granted more premium runs than credits were awarded
\* for that principal's purchases.
C7_NoUnpaidPremium ==
    /\ \A r \in DOMAIN reqs :
          (reqs[r].premium \/ reqs[r].job = "generate-premium") => reqs[r].debited
    /\ \A p \in Principals :
          Cardinality(PremiumRuns(p)) <= SumOver(awarded, AccountsOf(p))

\* The request presents a paid session that the verifier records as bought
\* by another principal than the caller.
OwnerMismatch(req) ==
    /\ req.sid \in Refs
    /\ req.login \in Principals
    /\ session(req.sid).payment_status = "paid"
    /\ session(req.sid).user_login # req.login

\* C8 Owner binding: a request for which the verifier has reported its
\* session as paid but recorded for another principal than the caller starts
\* no pipeline run and is answered 402, whatever the balances are.
C8_OwnerBinding ==
    \A r \in DOMAIN reqs :
        (OwnerMismatch(reqs[r]) /\ reqs[r].response = "resolved") =>
            /\ reqs[r].job = "none"
            /\ reqs[r].pc = "done" => reqs[r].status = 402

\* C9 No credit theft by replay: a step of a request presenting a paid
\* session of owner X adds no credit_events row and no credit for another
\* account than X's (X's login, or a session X paid), and once the verifier
\* was asked for a request whose caller is not X, the steps of that request
\* leave both tables as they were.
C9_Step ==
    \A r \in DOMAIN reqs :
        (reqs'[r] # reqs[r] /\ reqs'[r].sid \in PaidSessions) =>
            /\ \A k \in Keys \ AccountsOf(session(reqs'[r].sid).user_login) :
                  getCredits([credits |-> credits', credit_events |-> credit_events'], k)
                      <= getCredits(Db, k)
            /\ \A e \in credit_events' \ credit_events :
                  e.user_login \in AccountsOf(session(reqs'[r].sid).user_login)
            /\ (OwnerMismatch(reqs'[r]) /\ reqs'[r].retrieves > 0) =>
                  /\ credits' = credits
                  /\ credit_events' = credit_events

C9_NoTheftByReplay == [][C9_Step]_vars

\* The verification of the request ended without an answer of the verifier.
Unanswered(req) == req.response \in {"no_stripe", "rejected"}

C10_State ==
    \A r \in DOMAIN reqs :
        Unanswered(reqs[r]) =>
            /\ ~reqs[r].verified
            /\ ~reqs[r].debited
            /\ reqs[r].job = "none"
            /\ reqs[r].status \in {0, 402}
            /\ reqs[r].pc = "done" => reqs[r].status = 402

C10_Step ==
    \A r \in DOMAIN reqs :
        (reqs'[r] # reqs[r] /\ Unanswered(reqs'[r])) =>
            /\ credits' = credits
            /\ credit_events' = credit_events

\* C10 Fail-closed verification: when the slow path runs and getStripe()
\* gives no client or retrieve rejects (not found, API error, timeout), the
\* request is not verified: it is answered 402, never 202 and never 500, no
\* job is created, and none of its steps from then on changes the store.
C10_FailClosed == []C10_State /\ [][C10_Step]_vars

\* A request whose retrieve rejected, and one that found no Stripe client,
\* have been answered 402.
C10_Witness ==
    /\ \E r \in DOMAIN reqs :
          /\ reqs[r].pc = "done"
          /\ reqs[r].response = "rejected"
          /\ reqs[r].retrieves = 1
          /\ reqs[r].status = 402
    /\ \E r \in DOMAIN reqs :
          /\ reqs[r].pc = "done"
          /\ reqs[r].response = "no_stripe"
          /\ reqs[r].status = 402

(***************************************************************************)
(* Properties of the gate: the decision table                              *)
(***************************************************************************)
\* The handler has made the call op for the request.
Called(req, op) == \E i \in DOMAIN req.ops : req.ops[i] = op

\* The body carries a control field.
PremiumRequested(req) == req.sid # NoRef \/ req.premiumFlag

\* The body was parsed and passed validateEvidence.
Validated(req) == Called(req, "validateEvidence") /\ req.valid

LedgerOps == {"deductCredit", "awardCredits", "getCredits"}
TouchedLedger(req) == \E op \in LedgerOps : Called(req, op)

\* C11 Login required: a request without a login whose body carries
\* _stripe_session_id and/or _premium calls neither the ledger nor the
\* verifier, creates no job, starts no pipeline run, and is answered 401.
C11_LoginRequired ==
    \A r \in DOMAIN reqs :
        (reqs[r].login = NoLogin /\ PremiumRequested(reqs[r]) /\ Validated(reqs[r])) =>
            /\ ~TouchedLedger(reqs[r])
            /\ ~Called(reqs[r], "retrieve")
            /\ ~Called(reqs[r], "createJob")
            /\ ~Called(reqs[r], "runPipeline")
            /\ reqs[r].pc = "done" => reqs[r].status = 401

\* The verifier has answered for the request, and the session is not paid.
UnpaidReported(req) ==
    /\ req.response = "resolved"
    /\ session(req.sid).payment_status # "paid"

C12_State ==
    \A r \in DOMAIN reqs :
        UnpaidReported(reqs[r]) =>
            /\ ~reqs[r].verified
            /\ ~reqs[r].debited
            /\ ~Called(reqs[r], "awardCredits")
            /\ ~Called(reqs[r], "createJob")
            /\ ~Called(reqs[r], "runPipeline")
            /\ reqs[r].pc = "done" =>
                  /\ reqs[r].status = 402
                  /\ reqs[r].error = "Payment required or session not found"

C12_Step ==
    \A r \in DOMAIN reqs :
        (reqs'[r] # reqs[r] /\ UnpaidReported(reqs'[r])) =>
            /\ credits' = credits
            /\ credit_events' = credit_events

\* C12 Unpaid session: when the verifier reports the session of a request as
\* not paid, the request is answered 402 (payment required), starts no
\* pipeline run, and none of its steps writes a credit_events row or changes
\* a balance.
C12_UnpaidSession == []C12_State /\ [][C12_Step]_vars

\* dave, who holds no credits, presented his unpaid session cs_2; the
\* verifier answered and the request was answered 402.
C12_Witness ==
    \E r \in DOMAIN reqs :
        /\ reqs[r].login = "dave"
        /\ reqs[r].sid = "cs_2"
        /\ UnpaidReported(reqs[r])
        /\ reqs[r].pc = "done"
        /\ reqs[r].status = 402
        /\ getCredits(Db, "dave") = 0
        /\ credit_events = {}

\* The step in which the handler of request r continues after readJsonBody
\* with a body that passes validateEvidence.
Handles(r) == reqs[r].pc = "readJsonBody" /\ Validated(reqs'[r])

C13_Step ==
    \A r \in DOMAIN reqs, p \in Principals :
        (/\ Handles(r)
         /\ reqs[r].login = p
         /\ PremiumRequested(reqs[r])
         /\ getCredits(Db, p) >= 1) =>
            /\ reqs'[r].pc = "done"
            /\ reqs'[r].status = 202
            /\ reqs'[r].premium
            /\ reqs'[r].job = "generate-premium"
            /\ ~Called(reqs'[r], "retrieve")
            /\ reqs'[r].credits_remaining = getCredits(Db, p) - 1
            /\ p \in DOMAIN credits'
            /\ credits'[p] = getCredits(Db, p) - 1

\* C13 Fast path: a request of a principal who holds b >= 1 credits, with
\* _premium and/or _stripe_session_id in the body, is answered at once with
\* 202, premium: true and credits_remaining = b - 1, without a call of the
\* verifier, after a generate-premium job was created and the principal's
\* balance was lowered by exactly 1.
C13_FastPath == [][C13_Step]_vars

\* The caller is the principal the verifier records as the buyer of the
\* request's paid session.
OwnerMatch(req) ==
    /\ req.sid \in Refs
    /\ req.login \in Principals
    /\ session(req.sid).payment_status = "paid"
    /\ session(req.sid).user_login = req.login

Event(stripeSessionId, userLogin) ==
    {e \in credit_events :
        e.stripe_session_id = stripeSessionId /\ e.user_login = userLogin}

\* The verifier answers for a request of the buyer, who holds no credits and
\* whose session has not been credited: the award is made to the buyer under
\* the session's reference.
C14_AwardStep ==
    \A r \in DOMAIN reqs :
        (/\ reqs[r].pc = "retrieve"
         /\ reqs'[r].response = "resolved"
         /\ OwnerMatch(reqs[r])
         /\ getCredits(Db, reqs[r].login) = 0
         /\ EventsOf(reqs[r].sid) = {}) =>
            /\ reqs'[r].verified
            /\ reqs'[r].ops[Len(reqs'[r].ops)] = "awardCredits"
            /\ \E e \in credit_events' \ credit_events :
                  /\ e.stripe_session_id = reqs[r].sid
                  /\ e.user_login = reqs[r].login
            /\ reqs[r].login \in DOMAIN credits'
            /\ credits'[reqs[r].login] = CREDITS_PER_PURCHASE

\* The handler continues after that award: it takes one credit of the buyer
\* and answers 202 with what is left.
C14_DeductStep ==
    \A r \in DOMAIN reqs :
        (/\ reqs[r].pc = "verified"
         /\ reqs[r].response = "resolved"
         /\ OwnerMatch(reqs[r])
         /\ Event(reqs[r].sid, reqs[r].login) # {}
         /\ getCredits(Db, reqs[r].login) = CREDITS_PER_PURCHASE) =>
            /\ reqs'[r].pc = "done"
            /\ reqs'[r].status = 202
            /\ reqs'[r].premium
            /\ reqs'[r].credits_remaining = CREDITS_PER_PURCHASE - 1
            /\ credits'[reqs[r].login] = CREDITS_PER_PURCHASE - 1

\* C14 Slow-path success: for a principal with balance 0 presenting a paid,
\* not yet credited session that the verifier records as his own, the
\* handler first awards CREDITS_PER_PURCHASE credits to the principal under
\* the session's reference and then deducts one from the principal, and
\* answers 202 with premium: true and credits_remaining =
\* CREDITS_PER_PURCHASE - 1.
C14_SlowPathSuccess == [][C14_AwardStep /\ C14_DeductStep]_vars

\* Every request carries _premium: true and no _stripe_session_id.
FlagOnly ==
    \A r \in DOMAIN reqs : reqs[r].premiumFlag /\ reqs[r].sid = NoRef

Answered == {r \in DOMAIN reqs : reqs[r].pc = "done"}

\* C15 Credit exhaustion: of the requests that a principal (dave) holding n
\* credits makes with _premium: true and no reference, the first n are
\* answered 202 as premium runs without a call of the verifier, each taking
\* one credit, and every one after them is answered 402 with the balance at
\* 0: after k answers, min(n, k) were premium runs, the other answered ones
\* were rejected with 402, and the balance is n - min(n, k).
C15_Exhaustion ==
    FlagOnly =>
        /\ Cardinality(PremiumAccepted) =
               Min(awarded["dave"], Cardinality(Answered))
        /\ Cardinality(PaymentRequired) =
               Cardinality(Answered) - Cardinality(PremiumAccepted)
        /\ getCredits(Db, "dave") = awarded["dave"] - Cardinality(PremiumAccepted)
        /\ \A r \in DOMAIN reqs : ~Called(reqs[r], "retrieve")

\* C16 Field stripping: the object that the handler gives to
\* validateEvidence, and for an accepted request to runPipeline, holds
\* neither _stripe_session_id nor _premium.
C16_FieldStripping ==
    \A r \in DOMAIN reqs :
        (Called(reqs[r], "validateEvidence") \/ Called(reqs[r], "runPipeline")) =>
            reqs[r].payload \cap {"_stripe_session_id", "_premium"} = {}

\* How often the handler has made the call op for the request.
Count(req, op) == Cardinality({i \in DOMAIN req.ops : req.ops[i] = op})

AuthorizationOps == LedgerOps \cup {"getStripe", "retrieve"}

\* C17 Job creation: a request answered 202 made exactly one createJob call,
\* after its last ledger and verifier call; a request answered 400, 401 or
\* 402, and a request not yet decided, made none.
C17_JobCreation ==
    \A r \in DOMAIN reqs :
        /\ reqs[r].status = 202 =>
              /\ Count(reqs[r], "createJob") = 1
              /\ \A i \in DOMAIN reqs[r].ops, j \in DOMAIN reqs[r].ops :
                    (reqs[r].ops[i] = "createJob" /\ reqs[r].ops[j] \in AuthorizationOps)
                        => j < i
        /\ reqs[r].status \in {400, 401, 402} => Count(reqs[r], "createJob") = 0
        /\ reqs[r].pc # "done" => Count(reqs[r], "createJob") = 0
        /\ reqs[r].job = "none" <=> ~Called(reqs[r], "createJob")

\* A request was accepted after a verification and a deduct, and another
\* was rejected with 402 after a verification.
C17_Witness ==
    /\ \E r \in DOMAIN reqs :
          /\ reqs[r].status = 202
          /\ Called(reqs[r], "retrieve")
          /\ Called(reqs[r], "deductCredit")
          /\ Count(reqs[r], "createJob") = 1
    /\ \E r \in DOMAIN reqs :
          /\ reqs[r].status = 402
          /\ Called(reqs[r], "retrieve")
          /\ Count(reqs[r], "createJob") = 0

\* The request was accepted on the fast path: its first deductCredit, the
\* only one it made, returned true.
FastPath(req) == req.debited /\ Count(req, "deductCredit") = 1

\* The request was accepted as a standard run.
FreeRun(req) == req.status = 202 /\ ~req.premium

C19_State ==
    \A r \in DOMAIN reqs :
        (~PremiumRequested(reqs[r]) /\ Validated(reqs[r])) =>
            /\ reqs[r].pc = "done"
            /\ reqs[r].status = 202
            /\ reqs[r].job = "generate"
            /\ ~reqs[r].premium
            /\ reqs[r].credits_remaining = -1
            /\ reqs[r].ops =
                  <<"validateEvidence", "createJob", "runPipeline", "respondJson">>

C19_Step ==
    \A r \in DOMAIN reqs :
        (Handles(r) /\ ~PremiumRequested(reqs[r])) =>
            /\ credits' = credits
            /\ credit_events' = credit_events

\* C19 FreeRun: a request whose body carries neither _stripe_session_id nor
\* _premium is handled without a call of the ledger or the verifier: it
\* creates a "generate" job, runs the pipeline with premium = false, is
\* answered 202 with premium: false and no credits_remaining, and leaves
\* both tables as they were, whatever the caller's balance.
C19_FreeRun == []C19_State /\ [][C19_Step]_vars

\* eve, who holds credits, made a request without control fields: standard
\* run, her balance as it was.
C19_Witness ==
    \E r \in DOMAIN reqs :
        /\ reqs[r].login = "eve"
        /\ ~PremiumRequested(reqs[r])
        /\ FreeRun(reqs[r])
        /\ getCredits(Db, "eve") = CREDITS_PER_PURCHASE
        /\ spent = Zero

(***************************************************************************)
(* Properties of the ledger: results of the operations                     *)
(***************************************************************************)
\* C20 deduct result: from every reachable store and for every account,
\* known or not, deductCredit returns true exactly when the balance is
\* greater than 0 and then leaves it exactly one lower; otherwise it returns
\* false (a boolean, nothing is thrown) and the balance is as before.
C20_DeductResult ==
    \A p \in Keys :
        LET result == deductCredit(Db, p)
        IN  /\ result.ok \in BOOLEAN
            /\ result.ok <=> getCredits(Db, p) > 0
            /\ result.ok => getCredits(result.db, p) = getCredits(Db, p) - 1
            /\ ~result.ok => getCredits(result.db, p) = 0

\* A deductCredit has just returned true on an account that held at least
\* two credits, while another principal has no credits row at all.
C20_Witness ==
    /\ last.op = "deductCredit"
    /\ last.ok
    /\ getCredits(Db, last.userLogin) >= 1
    /\ awarded[last.userLogin] - spent[last.userLogin] = getCredits(Db, last.userLogin)
    /\ \E p \in Principals : p \notin DOMAIN credits /\ ~deductCredit(Db, p).ok

(***************************************************************************)
(* Properties of the ledger: frame, reads, reset, conservation             *)
(***************************************************************************)
\* C21 deduct frame: from every reachable store and for every account, a
\* deductCredit that returns false leaves both tables as they were, and one
\* that returns true leaves credit_events and every other row of credits as
\* they were and adds no row.
C21_DeductFrame ==
    \A p \in Keys :
        LET result == deductCredit(Db, p)
        IN  /\ ~result.ok => result.db = Db
            /\ result.ok =>
                  /\ result.db.credit_events = credit_events
                  /\ DOMAIN result.db.credits = DOMAIN credits
                  /\ \A k \in DOMAIN credits \ {p} : result.db.credits[k] = credits[k]

\* A deductCredit has just returned true while the other principal holds
\* everything that was awarded to him and event rows exist.
C21_Witness ==
    /\ last.op = "deductCredit"
    /\ last.ok
    /\ credit_events # {}
    /\ \E q \in Principals \ {last.userLogin} :
          /\ awarded[q] > 0
          /\ spent[q] = 0
          /\ getCredits(Db, q) = awarded[q]

C25_State ==
    last.op = "getCredits" =>
        /\ EventsFor(last.userLogin) = {} => last.remaining = 0
        /\ last.remaining = awarded[last.userLogin] - spent[last.userLogin]
        /\ last.remaining =
              (IF last.userLogin \in DOMAIN credits THEN credits[last.userLogin] ELSE 0)

C25_Step ==
    last'.op = "getCredits" =>
        /\ credits' = credits
        /\ credit_events' = credit_events

\* C25 getBalance: getCredits(p) returns 0 for a principal without an award
\* and otherwise the remaining count of the principal's row, which is the sum
\* of the counts awarded minus the number of successful deducts; the call
\* changes neither table.
C25_GetBalance == []C25_State /\ [][C25_Step]_vars

\* getCredits has just returned what is left after an award and a deduct,
\* while the other principal has no row.
C25_Witness ==
    /\ last.op = "getCredits"
    /\ last.remaining > 0
    /\ spent[last.userLogin] > 0
    /\ \E q \in Principals : q \notin DOMAIN credits /\ getCredits(Db, q) = 0

\* C26 reset: when clearCreditStore has returned, both tables are empty:
\* every balance reads 0, deductCredit returns false for every account, and
\* an award for any reference, processed before or not, writes its row and
\* leaves the account at its count.
C26_Reset ==
    last.op = "clearCreditStore" =>
        /\ credit_events = {}
        /\ \A p \in Keys :
              /\ getCredits(Db, p) = 0
              /\ ~deductCredit(Db, p).ok
        /\ \A p \in Principals, s \in Refs, n \in Counts, t \in Times :
              LET a == awardCredits(Db, p, s, n, t)
              IN  /\ a.changes = 1
                  /\ getCredits(a.db, p) = n

\* A store that held event rows has just been cleared.
C26_Witness ==
    /\ last.op = "clearCreditStore"
    /\ last.ok
    /\ credits = EmptyCredits
    /\ credit_events = {}
    /\ awarded = Zero

DbNext == [credits |-> credits', credit_events |-> credit_events']

C28_State ==
    \A p \in Keys : getCredits(Db, p) = awarded[p] - spent[p]

C28_Step ==
    LET new == credit_events' \ credit_events
    IN  last'.op # "clearCreditStore" =>
            /\ credit_events \subseteq credit_events'
            /\ Cardinality(new) <= 1
            /\ \A p \in Keys :
                  getCredits(DbNext, p) - getCredits(Db, p) =
                      (IF \E e \in new : e.user_login = p THEN last'.count ELSE 0)
                      - (IF /\ last'.op = "deductCredit"
                            /\ last'.ok
                            /\ last'.userLogin = p
                         THEN 1 ELSE 0)

\* C28 Conservation: in every state since the last clearCreditStore, the
\* balance of every account is the sum of the counts of the awards whose
\* event row was written for it minus the number of its deductCredit calls
\* that returned true; a call writes at most one event row, and the balance
\* rises by the count of the call exactly in the step that writes the row.
C28_Conservation == []C28_State /\ [][C28_Step]_vars

\* An account was awarded under both references and has spent credits.
C28_Witness ==
    \E p \in Principals :
        /\ Cardinality(EventsFor(p)) = 2
        /\ spent[p] >= 1
        /\ awarded[p] >= 2
        /\ getCredits(Db, p) = awarded[p] - spent[p]

C29_Step ==
    last'.op # "clearCreditStore" =>
        \A e \in credit_events' \ credit_events :
            getCredits(DbNext, e.user_login) =
                getCredits(Db, e.user_login) + last'.count

C29_State ==
    \A p \in Principals :
        (EventsFor(p) # {} /\ awarded[p] > 0) => getCredits(Db, p) + spent[p] > 0

\* C29 Award is all-or-nothing: the step that writes the event row of a
\* reference also adds the count to the account, and in no state, also
\* after a failure of the store during an award, does an account have event
\* rows with a positive count while nothing was ever added to its balance.
C29_AllOrNothing == []C29_State /\ [][C29_Step]_vars

(***************************************************************************)
(* Properties of the ledger: awards and deducts issued together            *)
(***************************************************************************)
ReturnedCalls(op) ==
    {i \in DOMAIN calls : calls[i].op = op /\ calls[i].state = "returned"}
AwardsWritten(p) ==
    {i \in ReturnedCalls("awardCredits") : calls[i].userLogin = p /\ calls[i].ok}
DeductsTaken(p) ==
    {i \in ReturnedCalls("deductCredit") : calls[i].userLogin = p /\ calls[i].ok}
CountOf == [i \in DOMAIN calls |-> calls[i].count]

\* C30 No lost update: however awardCredits calls with different references
\* and deductCredit calls for the same account interleave, the account
\* holds, after any number of them have returned and so when all have, its
\* initial credits plus the count of every award that was the first for its
\* reference minus the number of deducts that returned true; of the
\* returned awards naming one reference exactly one was the first.
C30_NoLostUpdate ==
    /\ \A p \in Principals :
          getCredits(Db, p) =
              SumOver(CountOf, AwardsWritten(p)) - Cardinality(DeductsTaken(p))
    /\ \A i \in ReturnedCalls("awardCredits") :
          Cardinality({j \in ReturnedCalls("awardCredits") :
                          /\ calls[j].stripeSessionId = calls[i].stripeSessionId
                          /\ calls[j].ok}) = 1

\* dave, who held credits, was awarded under both references and a deduct
\* of his returned true; all calls have returned.
C30_Witness ==
    /\ AllReturned
    /\ calls[0].count >= 1
    /\ Cardinality(AwardsWritten("dave")) = 3
    /\ Cardinality(DeductsTaken("dave")) = 1
    /\ getCredits(Db, "dave") =
          calls[0].count + 2 * CREDITS_PER_PURCHASE - 1

(***************************************************************************)
(* Properties of the gate: responses, failures of the store, the pipeline  *)
(***************************************************************************)
C22_State ==
    \A r \in DOMAIN reqs :
        reqs[r].status = 202 =>
            (reqs[r].credits_remaining # -1 <=> reqs[r].premium)

C22_Step ==
    \A r \in DOMAIN reqs :
        (/\ reqs[r].status # 202
         /\ reqs'[r].status = 202
         /\ reqs'[r].premium
         /\ reqs'[r].login \in Principals) =>
            reqs'[r].credits_remaining = getCredits(DbNext, reqs'[r].login)

\* C22 Response balance: a 202 response carries credits_remaining exactly
\* when the run is premium, and in the step that answers a premium request
\* of a principal the value is that principal's balance as the step leaves
\* it (the handler's deductCredit and getCredits run in that one step, so no
\* other request comes between them).
C22_ResponseBalance == []C22_State /\ [][C22_Step]_vars

\* The request ended in one of the cases that the caller is to see as
\* payment required: the verifier reported the session unpaid, did not find
\* it, reported it paid by another principal, or verified it while the
\* deductCredit after it returned false.
PaymentSubCase(req) ==
    /\ req.pc = "done"
    /\ \/ UnpaidReported(req)
       \/ req.response = "rejected"
       \/ OwnerMismatch(req) /\ req.response = "resolved"
       \/ req.verified /\ Count(req, "deductCredit") = 2 /\ ~req.debited

\* C23 Indistinguishable payment rejections: every request that ended in
\* one of the payment-required cases was answered 402, and any two of them
\* were answered with the same status and the same error body.
C23_Indistinguishable ==
    \A r1 \in DOMAIN reqs, r2 \in DOMAIN reqs :
        (PaymentSubCase(reqs[r1]) /\ PaymentSubCase(reqs[r2])) =>
            /\ reqs[r1].status = 402
            /\ reqs[r1].status = reqs[r2].status
            /\ reqs[r1].error = reqs[r2].error

\* C24 Ledger failure is a 500: a request during one of whose ledger calls
\* (the first deductCredit, the awardCredits of the verification, the second
\* deductCredit, getCredits) the store failed is answered 500: never 402,
\* never 202, and no job is created for it.
C24_LedgerFailure ==
    \A r \in DOMAIN reqs :
        reqs[r].failed # "none" =>
            /\ reqs[r].status \in {0, 500}
            /\ reqs[r].job = "none"
            /\ reqs[r].pc = "done" => reqs[r].status = 500

C27_State ==
    \A k \in Keys :
        spent[k] = Cardinality({r \in DOMAIN reqs : reqs[r].premium /\ reqs[r].sid = k})

\* The step is an award for the account k: a call of awardCredits by the
\* webhook, which writes an event row for k, or by the verification of a
\* request that names k.
AwardStep(k) ==
    \/ \E e \in credit_events' \ credit_events : e.user_login = k
    \/ \E r \in DOMAIN reqs :
          /\ reqs'[r].sid = k
          /\ Count(reqs'[r], "awardCredits") = Count(reqs[r], "awardCredits") + 1

C27_Step ==
    /\ \A k \in Keys :
          getCredits(DbNext, k) > getCredits(Db, k) => AwardStep(k)
    /\ \A r \in DOMAIN reqs :
          (reqs[r].job # "none" /\ reqs'[r] # reqs[r]) =>
              /\ credits' = credits
              /\ credit_events' = credit_events

\* C27 No refund: the credits taken from an account are as many as the
\* premium runs started on it, whether their pipelines have ended or not and
\* however they ended; the step in which the pipeline of a job resolves or
\* rejects changes neither table; and a balance rises only in a step that
\* writes an event row for that account (an award).
C27_NoRefund == []C27_State /\ [][C27_Step]_vars

\* The pipeline of a premium run has failed and the account is one credit
\* short of what the purchase gave it.
C27_Witness ==
    \E r \in DOMAIN reqs :
        /\ reqs[r].premium
        /\ reqs[r].pipeline = "rejected"
        /\ awarded[reqs[r].sid] = CREDITS_PER_PURCHASE
        /\ getCredits(Db, reqs[r].sid) = CREDITS_PER_PURCHASE - 1

(***************************************************************************)
(* Properties of the gate: what a request costs                            *)
(***************************************************************************)
C31_State ==
    \A r \in DOMAIN reqs :
        reqs[r].pc = "done" =>
            /\ reqs[r].debited <=>
                  (reqs[r].status = 202 /\ reqs[r].premium /\ reqs[r].job # "none")
            /\ reqs[r].status \in {400, 401, 402, 500} => ~reqs[r].debited

C31_Step ==
    \A r \in DOMAIN reqs, k \in Keys :
        (reqs'[r] # reqs[r] /\ getCredits(DbNext, k) < getCredits(Db, k)) =>
            /\ getCredits(DbNext, k) = getCredits(Db, k) - 1
            /\ reqs'[r].status = 202
            /\ reqs'[r].premium
            /\ reqs'[r].job # "none"

\* C31 A credit is consumed only by an accepted premium request: a step of
\* a request lowers a balance only by 1 and only when it answers 202 with
\* premium: true after creating a job, and a request that has ended took a
\* credit exactly when it was answered that way; one that ended in 400, 401,
\* 402 or 500 took none.
C31_ConsumedOnlyByAccepted == []C31_State /\ [][C31_Step]_vars

\* The handler has found the body of the request invalid.
Invalid(req) == Called(req, "validateEvidence") /\ ~req.valid

C32_State ==
    \A r \in DOMAIN reqs :
        Invalid(reqs[r]) =>
            /\ reqs[r].pc = "done"
            /\ reqs[r].status = 400
            /\ reqs[r].error = "Invalid evidence"
            /\ reqs[r].ops = <<"validateEvidence", "respondJson">>
            /\ reqs[r].job = "none"
            /\ ~reqs[r].debited
            /\ reqs[r].retrieves = 0

C32_Step ==
    \A r \in DOMAIN reqs :
        (reqs'[r] # reqs[r] /\ Invalid(reqs'[r])) =>
            /\ credits' = credits
            /\ credit_events' = credit_events

\* C32 Invalid evidence is rejected before payment: a request whose body
\* fails validateEvidence is answered 400 in the step that validates it,
\* having called nothing but validateEvidence and respondJson (no ledger
\* function, no verifier, no createJob), and that step leaves both tables as
\* they were, whatever control fields the body carries and whatever the
\* balances are.
C32_InvalidFirst == []C32_State /\ [][C32_Step]_vars

\* An invalid body carrying _premium and the paid session cs_1 was answered
\* 400 while the account of cs_1 and eve's own account hold credits.
C32_Witness ==
    \E r \in DOMAIN reqs :
        /\ Invalid(reqs[r])
        /\ reqs[r].status = 400
        /\ reqs[r].login = "eve"
        /\ reqs[r].sid = "cs_1"
        /\ reqs[r].premiumFlag
        /\ getCredits(Db, "cs_1") > 0
        /\ getCredits(Db, "eve") > 0

C33_Step ==
    \A r \in DOMAIN reqs :
        (/\ reqs[r].pc = "retrieve"
         /\ reqs'[r] # reqs[r]
         /\ reqs[r].sid \in PaidSessions
         /\ RowsFor(reqs[r].sid) # {}) =>
            /\ credits' = credits
            /\ credit_events' = credit_events
            /\ reqs'[r].verified => getCredits(Db, reqs[r].sid) = 0

\* C33 A payment reference pays once: when a request presents a paid
\* session that has been credited before (by the webhook or by an earlier
\* verification), the award of its verification changes neither table, so
\* the session funds CREDITS_PER_PURCHASE premium runs and no more, and the
\* handler goes on to its second deductCredit with the account as empty as
\* the first one found it.
C33_PaysOnce == [][C33_Step]_vars

C34_Step ==
    \A r \in DOMAIN reqs, p \in Principals :
        (/\ Handles(r)
         /\ reqs[r].login = p
         /\ reqs[r].sid \in Refs
         /\ getCredits(Db, p) >= 1) =>
            /\ FastPath(reqs'[r])
            /\ reqs'[r].status = 202
            /\ ~Called(reqs'[r], "getStripe")
            /\ ~Called(reqs'[r], "retrieve")
            /\ credit_events' = credit_events
            /\ \A k \in Keys :
                  getCredits(DbNext, k) =
                      IF k = p THEN getCredits(Db, p) - 1 ELSE getCredits(Db, k)

\* C34 Fast path ignores the reference: the handler accepts a request of a
\* principal who holds credits on the fast path whichever session the body
\* names (paid or unpaid, his own or another principal's), without asking
\* the verifier, and takes the credit from that principal's own balance and
\* from no other account.
C34_FastPathIgnoresRef == [][C34_Step]_vars

(***************************************************************************)
(* Properties of the gate: one response                                    *)
(***************************************************************************)
C35_State ==
    \A r \in DOMAIN reqs :
        /\ Count(reqs[r], "respondJson") <= 1
        /\ Count(reqs[r], "next") <= 1
        /\ reqs[r].pc # "done" =>
              Count(reqs[r], "respondJson") = 0 /\ Count(reqs[r], "next") = 0
        /\ (reqs[r].pc = "done" /\ reqs[r].method = "POST") =>
              /\ Count(reqs[r], "respondJson") = 1
              /\ reqs[r].ops[Len(reqs[r].ops)] = "respondJson"
              /\ Count(reqs[r], "next") = 0
              /\ reqs[r].status \in {202, 400, 401, 402, 500}
        /\ (reqs[r].pc = "done" /\ reqs[r].method # "POST") =>
              /\ reqs[r].ops = <<"next">>
              /\ reqs[r].status = 0

C35_Step ==
    \A r \in DOMAIN reqs :
        (reqs'[r] # reqs[r] /\ reqs[r].method # "POST") =>
            /\ credits' = credits
            /\ credit_events' = credit_events

\* C35 Exactly one response: every POST comes to its end, having called
\* respondJson exactly once, as its last call, with status 202, 400, 401,
\* 402 or 500, and never next(); a request with another method comes to its
\* end having called next() once and nothing else, and its step leaves both
\* tables as they were.
C35_OneResponse ==
    /\ []C35_State
    /\ [][C35_Step]_vars
    /\ \A r \in 1..NumReq : <>(reqs[r].pc = "done")

\* A request that is not a POST was passed on, and a POST was answered 202
\* as a premium run after a verification.
C35_Witness ==
    /\ AllDone
    /\ \E r \in DOMAIN reqs : reqs[r].method = "GET" /\ reqs[r].ops = <<"next">>
    /\ \E r \in DOMAIN reqs :
          /\ reqs[r].status = 202
          /\ reqs[r].premium
          /\ Called(reqs[r], "retrieve")
          /\ Count(reqs[r], "respondJson") = 1

(***************************************************************************)
(* The legacy in-memory credit store (the Map keyed by Stripe session id   *)
(* that preceded the SQLite ledger).  A JavaScript Map iterates in         *)
(* insertion order and Map.set on an existing key keeps its position, so   *)
(* creditMap is the sequence of its entries, oldest insertion first.       *)
(***************************************************************************)
\* 1000 in the store; scaled so that the eviction of line 16-19 is reached.
CREDIT_STORE_MAX == 2
NumAwards == 3

Sessions == {"cs_1", "cs_2", "cs_3"}
\* count defaults to CREDITS_PER_PURCHASE; a caller may pass another one.
AwardCounts == {1, CREDITS_PER_PURCHASE}

creditMap_has(m, sessionId) == \E i \in DOMAIN m : m[i].sessionId = sessionId

creditMap_get(m, sessionId) ==
    LET i == CHOOSE i \in DOMAIN m : m[i].sessionId = sessionId
    IN  m[i].remaining

\* Map.set: an existing key keeps its place, a new key goes last.
creditMap_set(m, sessionId, remaining) ==
    IF creditMap_has(m, sessionId)
    THEN [i \in DOMAIN m |->
            IF m[i].sessionId = sessionId
            THEN [sessionId |-> sessionId, remaining |-> remaining]
            ELSE m[i]]
    ELSE Append(m, [sessionId |-> sessionId, remaining |-> remaining])

creditMap_awardCredits(m, sessionId, count) ==
    LET kept == IF ~creditMap_has(m, sessionId) /\ Len(m) >= CREDIT_STORE_MAX
                THEN IF m # <<>> THEN Tail(m) ELSE m
                ELSE m
    IN  IF ~creditMap_has(kept, sessionId)
        THEN creditMap_set(kept, sessionId, count)
        ELSE kept

creditMap_getCredits(m, sessionId) ==
    IF creditMap_has(m, sessionId) THEN creditMap_get(m, sessionId) ELSE 0

creditMap_deductCredit(m, sessionId) ==
    LET remaining == creditMap_getCredits(m, sessionId)
    IN  IF remaining <= 0
        THEN [ok |-> FALSE, map |-> m]
        ELSE [ok |-> TRUE, map |-> creditMap_set(m, sessionId, remaining - 1)]

\* received[s]: the awardCredits calls made for s, the count of the first of
\* them, and the credits those calls have granted to s in total.
NoneReceived == [s \in Sessions |-> [awards |-> 0, first |-> 0, total |-> 0]]

IdleLedger ==
    /\ driver = "TypeError"
    /\ credits = EmptyCredits
    /\ credit_events = {}
    /\ awarded = Zero
    /\ spent = Zero
    /\ last = NoCall
    /\ calls = NoCalls
    /\ reqs = NoReqs

InitLegacy ==
    /\ IdleLedger /\ IdleRails /\ IdleCallbacks /\ IdlePipeline
    /\ creditMap = <<>>
    /\ received = NoneReceived

LegacyAward(sessionId, count) ==
    /\ received[sessionId].awards < NumAwards
    /\ creditMap' = creditMap_awardCredits(creditMap, sessionId, count)
    /\ received' = [received EXCEPT ![sessionId] =
          [awards |-> @.awards + 1,
           first |-> IF @.awards = 0 THEN count ELSE @.first,
           total |-> @.total + creditMap_getCredits(creditMap', sessionId)
                             - creditMap_getCredits(creditMap, sessionId)]]
    /\ UNCHANGED <<ledgerVars, railsVars, callbacks, pipelineVars>>

LegacyDeduct(sessionId) ==
    LET d == creditMap_deductCredit(creditMap, sessionId)
    IN  /\ d.ok
        /\ creditMap' = d.map
        /\ UNCHANGED <<received, ledgerVars, railsVars, callbacks, pipelineVars>>

NextLegacy ==
    \/ \E s \in Sessions, n \in AwardCounts : LegacyAward(s, n)
    \/ \E s \in Sessions : LegacyDeduct(s)

SpecLegacy == InitLegacy /\ [][NextLegacy]_vars

\* C36: in the legacy store a further awardCredits for a session that was
\* awarded before leaves that session's remaining credits as they are,
\* whatever awards and deductions came in between, so the credits granted
\* to a session never exceed the count of its first award.
C36_State == \A s \in Sessions : received[s].total <= received[s].first

C36_Step ==
    \A s \in Sessions :
        (received[s].awards >= 1 /\ received'[s].awards = received[s].awards + 1)
            => creditMap_getCredits(creditMap', s) = creditMap_getCredits(creditMap, s)

C36_AwardIdempotent == []C36_State /\ [][C36_Step]_vars

(***************************************************************************)
(* The Rails backend: Api::GenerateController#create enqueues GenerateJob  *)
(* and writes the job's status to Rails.cache; the worker runs the job in  *)
(* another thread or process; Api::JobsController#show is the poll.        *)
(***************************************************************************)
NumJobs == 2
NumPolls == 2

Nil == "nil"
JOB_CACHE_PREFIX == "job:"
\* ActiveJob's job_id and the queue backend's own id of job j.
JobId(j) == IF j = 1 THEN "j1" ELSE IF j = 2 THEN "j2" ELSE "j3"
ProviderJobId(j) == IF j = 1 THEN "p1" ELSE IF j = 2 THEN "p2" ELSE "p3"
\* The queue adapter is configuration: it either sets provider_job_id at
\* enqueue (Sidekiq, Solid Queue, ...) or leaves it nil (async).
Adapters == {"provider_job_id", "job_id only"}
ReviewYears == {"none", "blank", "evidence"}
CacheKeys == {JOB_CACHE_PREFIX \o JobId(j) : j \in 1..NumJobs}
                \cup {JOB_CACHE_PREFIX \o ProviderJobId(j) : j \in 1..NumJobs}
EmptyCache == [k \in CacheKeys |-> Nil]

Job(adapter, ry) ==
    [adapter |-> adapter, ry |-> ry, pc |-> "received", status |-> 0,
     worker |-> "none", provider_job_id |-> Nil, jid |-> Nil,
     polls |-> 0, observed |-> "none"]

InitRails ==
    /\ IdleLedger /\ IdleLegacy /\ IdleCallbacks /\ IdlePipeline
    /\ railsCache = EmptyCache
    /\ \E adapter \in Adapters :
          jobs \in [1..NumJobs -> {Job(adapter, ry) : ry \in ReviewYears}]

\* create up to GenerateJob.perform_later and the choice of jid (lines 6-12).
Create(j) ==
    /\ jobs[j].pc = "received"
    /\ IF jobs[j].ry = "none"
       THEN jobs' = [jobs EXCEPT ![j].pc = "rejected", ![j].status = 404]
       ELSE IF jobs[j].ry = "blank"
       THEN jobs' = [jobs EXCEPT ![j].pc = "rejected", ![j].status = 422]
       ELSE LET provider == IF jobs[j].adapter = "provider_job_id"
                            THEN ProviderJobId(j) ELSE Nil
            IN  jobs' = [jobs EXCEPT ![j].pc = "enqueued", ![j].worker = "queued",
                                     ![j].provider_job_id = provider,
                                     ![j].jid = IF provider # Nil THEN provider
                                                ELSE JobId(j)]
    /\ UNCHANGED <<railsCache, ledgerVars, legacyVars, callbacks, pipelineVars>>

\* Rails.cache.write("job:#{jid}", { status: "pending" }) (line 13).
WritePending(j) ==
    /\ jobs[j].pc = "enqueued"
    /\ railsCache' = [railsCache EXCEPT ![JOB_CACHE_PREFIX \o jobs[j].jid] = "pending"]
    /\ jobs' = [jobs EXCEPT ![j].pc = "written"]
    /\ UNCHANGED <<ledgerVars, legacyVars, callbacks, pipelineVars>>

\* render json: { job_id: jid }, status: :accepted (line 14).
Render(j) ==
    /\ jobs[j].pc = "written"
    /\ jobs' = [jobs EXCEPT ![j].pc = "accepted", ![j].status = 202]
    /\ UNCHANGED <<railsCache, ledgerVars, legacyVars, callbacks, pipelineVars>>

\* GenerateJob#perform: the pipeline ran and the result was saved, then
\* "done" is written under the job's own job_id; or one of them raised.
Perform(j, raised) ==
    /\ jobs[j].worker = "queued"
    /\ IF raised
       THEN /\ jobs' = [jobs EXCEPT ![j].worker = "failed"]
            /\ UNCHANGED railsCache
       ELSE /\ railsCache' = [railsCache EXCEPT ![JOB_CACHE_PREFIX \o JobId(j)] = "done"]
            /\ jobs' = [jobs EXCEPT ![j].worker = "done"]
    /\ UNCHANGED <<ledgerVars, legacyVars, callbacks, pipelineVars>>

\* Api::JobsController#show with the job_id the client was given.
Poll(j) ==
    /\ jobs[j].pc = "accepted"
    /\ jobs[j].polls < NumPolls
    /\ jobs' = [jobs EXCEPT ![j].polls = @ + 1,
                            ![j].observed = railsCache[JOB_CACHE_PREFIX \o jobs[j].jid]]
    /\ UNCHANGED <<railsCache, ledgerVars, legacyVars, callbacks, pipelineVars>>

NextRails ==
    \/ \E j \in DOMAIN jobs : Create(j)
    \/ \E j \in DOMAIN jobs : WritePending(j)
    \/ \E j \in DOMAIN jobs : Render(j)
    \/ \E j \in DOMAIN jobs, raised \in BOOLEAN : Perform(j, raised)
    \/ \E j \in DOMAIN jobs : Poll(j)

SpecRails == InitRails /\ [][NextRails]_vars

\* C37: the controller and the job write the same cache key, and once the
\* job has written "done" no poll of that job observes "pending", however
\* the controller's cache write and the worker interleave.
C37_State ==
    \A j \in DOMAIN jobs : jobs[j].jid # Nil => jobs[j].jid = JobId(j)

C37_Step ==
    \A j \in DOMAIN jobs :
        (jobs[j].worker = "done" /\ jobs'[j].polls = jobs[j].polls + 1)
            => jobs'[j].observed # "pending"

C37_Monotonic == []C37_State /\ [][C37_Step]_vars

\* The race alone, with an adapter that leaves provider_job_id nil.
C37_StepSameKey ==
    \A j \in DOMAIN jobs :
        (/\ jobs[j].adapter = "job_id only"
         /\ jobs[j].worker = "done"
         /\ jobs'[j].polls = jobs[j].polls + 1)
            => jobs'[j].observed # "pending"

C37_MonotonicSameKey == [][C37_StepSameKey]_vars

(***************************************************************************)
(* The GitHub OAuth callback (lib/auth.js, handleCallback) as the dev      *)
(* server wires it.  The handler awaits the token exchange and the user    *)
(* fetch; res.setHeader("Set-Cookie", ...) replaces the header, so the     *)
(* response carries the cookie of the last of its calls.                   *)
(***************************************************************************)
NumCallbacks == 1

Codes == {Null, "c1"}
OAuthStates == {"public_a", "private_b"}
StateParams == {Null, ""} \cup OAuthStates
\* What getStateFromRequest returns, and getAndRemoveOAuthState when the
\* caller provides it ("absent": the dependency is not passed).
CookieStates == {Null} \cup OAuthStates
StoreStates == {"absent", Null, "public_a"}

\* JavaScript truthiness of a string-or-null value.
Truthy(v) == v # Null /\ v # ""

\* lines 95-97: the cookie's state, else the server-side store's.
storedState(cb) ==
    IF cb.cookie # Null THEN cb.cookie
    ELSE IF Truthy(cb.stateParam) /\ cb.store # "absent" THEN cb.store
    ELSE Null

\* line 110 (deps.scope is not passed by the server).
scopeOf(stateParam) ==
    IF stateParam = "public_a" THEN "public"
    ELSE IF stateParam = "private_b" THEN "private"
    ELSE "public"

CallbackRequest(code, stateParam, cookie, store) ==
    [code |-> code, stateParam |-> stateParam, cookie |-> cookie, store |-> store,
     pc |-> "received", exchange |-> "none", user |-> "none",
     sessions |-> 0, scope |-> Null, setHeader |-> <<>>,
     status |-> 0, location |-> Null, outcome |-> "none"]

InitCallbacks ==
    /\ IdleLedger /\ IdleLegacy /\ IdleRails /\ IdlePipeline
    /\ callbacks \in [1..NumCallbacks ->
          {CallbackRequest(code, stateParam, cookie, store) :
              code \in Codes, stateParam \in StateParams,
              cookie \in CookieStates, store \in StoreStates}]

\* fail(): lines 99-103.
fail(cb) ==
    [cb EXCEPT !.setHeader = Append(@, "clearStateCookie"),
               !.status = 302, !.location = "/?error=auth_failed",
               !.pc = "done", !.outcome = "fail"]

\* Mutant: the stored state is only required to exist, not to be equal.
Callback_NoStateCheck(c) ==
    /\ callbacks[c].pc = "received"
    /\ LET cb == callbacks[c]
       IN  IF ~Truthy(cb.code) \/ ~Truthy(cb.stateParam) \/ ~Truthy(storedState(cb))
           THEN callbacks' = [callbacks EXCEPT ![c] = fail(cb)]
           ELSE callbacks' = [callbacks EXCEPT ![c].pc = "exchange",
                                               ![c].scope = scopeOf(cb.stateParam)]
    /\ UNCHANGED <<ledgerVars, legacyVars, railsVars, pipelineVars>>

\* handleCallback up to its first await (lines 90-114).
Callback(c) ==
    /\ callbacks[c].pc = "received"
    /\ LET cb == callbacks[c]
       IN  IF \/ ~Truthy(cb.code) \/ ~Truthy(cb.stateParam)
              \/ ~Truthy(storedState(cb)) \/ cb.stateParam # storedState(cb)
           THEN callbacks' = [callbacks EXCEPT ![c] = fail(cb)]
           ELSE callbacks' = [callbacks EXCEPT ![c].pc = "exchange",
                                               ![c].scope = scopeOf(cb.stateParam)]
    /\ UNCHANGED <<ledgerVars, legacyVars, railsVars, pipelineVars>>

\* await deps.exchangeCodeForToken settles (lines 113-119).
ExchangeSettles(c, ok) ==
    /\ callbacks[c].pc = "exchange"
    /\ IF ok
       THEN callbacks' = [callbacks EXCEPT ![c].exchange = "ok", ![c].pc = "user"]
       ELSE callbacks' = [callbacks EXCEPT
                             ![c] = fail([callbacks[c] EXCEPT !.exchange = "throws"])]
    /\ UNCHANGED <<ledgerVars, legacyVars, railsVars, pipelineVars>>

\* await deps.getGitHubUser settles (lines 119-128).  It is outside the try:
\* a failure rejects handleCallback and the server's catch answers 500.
UserSettles(c, ok) ==
    /\ callbacks[c].pc = "user"
    /\ IF ok
       THEN callbacks' = [callbacks EXCEPT
               ![c].user = "ok",
               ![c].sessions = @ + 1,
               ![c].setHeader = @ \o <<"clearStateCookie", "setSessionCookie">>,
               ![c].status = 302, ![c].location = "/generate",
               ![c].pc = "done", ![c].outcome = "session"]
       ELSE callbacks' = [callbacks EXCEPT
               ![c].user = "throws", ![c].status = 500,
               ![c].pc = "done", ![c].outcome = "rejected"]
    /\ UNCHANGED <<ledgerVars, legacyVars, railsVars, pipelineVars>>

NextCallbacks ==
    \/ \E c \in DOMAIN callbacks : Callback(c)
    \/ \E c \in DOMAIN callbacks, ok \in BOOLEAN : ExchangeSettles(c, ok)
    \/ \E c \in DOMAIN callbacks, ok \in BOOLEAN : UserSettles(c, ok)

SpecCallbacks == InitCallbacks /\ [][NextCallbacks]_vars

\* The Set-Cookie header the response carries.
SetCookie(cb) ==
    IF cb.setHeader = <<>> THEN Null ELSE cb.setHeader[Len(cb.setHeader)]

\* C38: handleCallback calls createSession at most once, and only for a
\* request with a code, a state parameter and an equal stored state whose
\* token exchange and user fetch succeeded; a callback that ended in fail()
\* cleared the state cookie, redirected to /?error=auth_failed, created no
\* session and set no session cookie.
C38_SessionOnlyWhenVerified ==
    \A c \in DOMAIN callbacks :
        LET cb == callbacks[c]
        IN  /\ cb.sessions <= 1
            /\ cb.sessions = 1 =>
                  /\ Truthy(cb.code) /\ Truthy(cb.stateParam)
                  /\ Truthy(storedState(cb)) /\ storedState(cb) = cb.stateParam
                  /\ cb.exchange = "ok" /\ cb.user = "ok"
            /\ cb.outcome = "fail" =>
                  /\ SetCookie(cb) = "clearStateCookie"
                  /\ cb.status = 302 /\ cb.location = "/?error=auth_failed"
                  /\ cb.sessions = 0
                  /\ \A i \in DOMAIN cb.setHeader : cb.setHeader[i] # "setSessionCookie"
            /\ cb.outcome = "rejected" => cb.sessions = 0 /\ SetCookie(cb) = Null

\* A callback went through both awaits and created its session.
C38_Witness ==
    \E c \in DOMAIN callbacks :
        /\ callbacks[c].outcome = "session"
        /\ callbacks[c].sessions = 1
        /\ SetCookie(callbacks[c]) = "setSessionCookie"

(***************************************************************************)
(* The pipeline result cache (lib/run-pipeline.js).  runPipeline looks the *)
(* key up before its first await and inserts after its last one; between   *)
(* them it awaits four LLM calls, where other runs interleave.  resultCache*)
(* is a Map: the sequence of its entries, oldest insertion first.          *)
(***************************************************************************)
\* 50 in the pipeline; scaled so that a full cache is reached.
RESULT_CACHE_MAX == 2
NumRuns == 2

Evidences == {"e1", "e2"}
Models == {"gpt-4o-mini", "gpt-4o"}
STEPS == <<"themes", "bullets", "stories", "self_eval">>

\* sha256 of the JSON of { evidence, model }, taken to be free of collisions.
cacheKey(ev, model) == <<ev, model>>
CacheKeysOf == {cacheKey(ev, m) : ev \in Evidences, m \in Models}

resultCache_has(m, key) == \E i \in DOMAIN m : m[i].key = key

\* Map.get: undefined (Null) for a key that is not there.
resultCache_get(m, key) ==
    IF resultCache_has(m, key)
    THEN m[CHOOSE i \in DOMAIN m : m[i].key = key].result
    ELSE Null

\* Map.set: an existing key keeps its place, a new key goes last.
resultCache_set(m, key, result) ==
    IF resultCache_has(m, key)
    THEN [i \in DOMAIN m |->
            IF m[i].key = key THEN [key |-> key, result |-> result] ELSE m[i]]
    ELSE Append(m, [key |-> key, result |-> result])

\* Mutant: a full cache is not trimmed before the insertion.
insertResult_NoEviction(m, key, result) == resultCache_set(m, key, result)

\* lines 251-255.
insertResult(m, key, result) ==
    LET kept == IF Len(m) >= RESULT_CACHE_MAX /\ m # <<>> THEN Tail(m) ELSE m
    IN  resultCache_set(kept, key, result)

\* The result a run (0: one that ended before the checked ones) computed.
ResultOf(r) == <<"result", r>>

NewRun ==
    [pc |-> "new", evidence |-> Null, model |-> Null, onProgress |-> FALSE,
     progress |-> <<>>, llm |-> 0, outcome |-> "none", result |-> Null]

\* The caches earlier runs can have left: distinct keys, at most the maximum.
Caches ==
    {<<>>} \cup
    UNION {{m \in [1..n -> [key : CacheKeysOf, result : {ResultOf(0)}]] :
              \A i, j \in 1..n : m[i].key = m[j].key => i = j}
           : n \in 1..RESULT_CACHE_MAX}

InitRuns ==
    /\ IdleLedger /\ IdleLegacy /\ IdleRails /\ IdleCallbacks
    /\ resultCache \in Caches
    /\ runs = [r \in 1..NumRuns |-> NewRun]

\* onProgress({ stepIndex: i, ... }) when a callback was passed.
report(run, i) ==
    IF run.onProgress THEN [run EXCEPT !.progress = Append(@, i)] ELSE run

\* runPipeline up to its first await (lines 83-148).  The runs are numbered
\* in the order of their calls.
Start(r, ev, model, apiKey, onProgress) ==
    /\ runs[r].pc = "new"
    /\ \A q \in 1..(r - 1) : runs[q].pc # "new"
    /\ LET run == [runs[r] EXCEPT !.evidence = ev, !.model = model,
                                  !.onProgress = onProgress]
           cached == resultCache_get(resultCache, cacheKey(ev, model))
       IN  IF ~apiKey
           THEN runs' = [runs EXCEPT ![r] = [run EXCEPT !.pc = "done", !.outcome = "throws"]]
           ELSE IF cached # Null
           THEN runs' = [runs EXCEPT ![r] =
                    [report(report(report(report(run, 1), 2), 3), 4)
                        EXCEPT !.pc = "done", !.outcome = "hit", !.result = cached]]
           ELSE runs' = [runs EXCEPT ![r] =
                    [report(run, 1) EXCEPT !.pc = "step", !.llm = 1]]
    /\ UNCHANGED <<resultCache, ledgerVars, legacyVars, railsVars, callbacks>>

\* An awaited LLM call settles (lines 148-256): it or extractJson throws, or
\* the next step starts, or (after the fourth) the result is cached.
LlmSettles(r, ok) ==
    /\ runs[r].pc = "step"
    /\ LET run == runs[r]
       IN  IF ~ok
           THEN /\ runs' = [runs EXCEPT ![r].pc = "done", ![r].outcome = "throws"]
                /\ UNCHANGED resultCache
           ELSE IF run.llm < Len(STEPS)
           THEN /\ runs' = [runs EXCEPT ![r] =
                       [report(run, run.llm + 1) EXCEPT !.llm = @ + 1]]
                /\ UNCHANGED resultCache
           ELSE /\ runs' = [runs EXCEPT ![r] =
                       [report(run, Len(STEPS)) EXCEPT
                           !.pc = "done", !.outcome = "miss", !.result = ResultOf(r)]]
                /\ resultCache' = insertResult(resultCache,
                                     cacheKey(run.evidence, run.model), ResultOf(r))
    /\ UNCHANGED <<ledgerVars, legacyVars, railsVars, callbacks>>

NextRuns ==
    \/ \E r \in DOMAIN runs, ev \in Evidences, m \in Models,
          apiKey \in BOOLEAN, onProgress \in BOOLEAN :
            Start(r, ev, m, apiKey, onProgress)
    \/ \E r \in DOMAIN runs, ok \in BOOLEAN : LlmSettles(r, ok)

SpecRuns == InitRuns /\ [][NextRuns]_vars

KeysIn(m) == [i \in DOMAIN m |-> m[i].key]

\* The step in which run r returns a computed result / a cached one.
Completes(r) == runs[r].pc = "step" /\ runs'[r].outcome = "miss"
Hits(r) == runs[r].pc = "new" /\ runs'[r].outcome = "hit"

\* C39: the result cache never holds more than RESULT_CACHE_MAX entries; a
\* completion that finds it full drops the oldest-inserted key and then
\* inserts its own; a hit returns the stored result, makes no LLM call,
\* leaves the cache alone and has reported steps 1, 2, 3, 4 in this order.
C39_State == Len(resultCache) <= RESULT_CACHE_MAX

C39_Step ==
    \A r \in DOMAIN runs :
        /\ (Completes(r) /\ Len(resultCache) = RESULT_CACHE_MAX) =>
              LET rest == Tail(KeysIn(resultCache))
                  key == cacheKey(runs[r].evidence, runs[r].model)
              IN  /\ SubSeq(KeysIn(resultCache'), 1, Len(rest)) = rest
                  /\ resultCache_get(resultCache', key) = ResultOf(r)
                  /\ resultCache[1].key # key
                        => ~resultCache_has(resultCache', resultCache[1].key)
        /\ Hits(r) =>
              /\ runs'[r].result # Null
              /\ runs'[r].result = resultCache_get(resultCache,
                                      cacheKey(runs'[r].evidence, runs'[r].model))
              /\ runs'[r].llm = 0
              /\ resultCache' = resultCache
              /\ runs'[r].onProgress => runs'[r].progress = <<1, 2, 3, 4>>

C39_ResultCache == []C39_State /\ [][C39_Step]_vars

\* A run completed into a full cache and evicted, and another run then hit
\* the cache and reported its four steps.
C39_Witness ==
    \E r, h \in DOMAIN runs :
        /\ runs[r].outcome = "miss"
        /\ Len(resultCache) = RESULT_CACHE_MAX
        /\ resultCache[RESULT_CACHE_MAX].result = ResultOf(r)
        /\ runs[h].outcome = "hit"
        /\ runs[h].result = ResultOf(r)
        /\ runs[h].progress = <<1, 2, 3, 4>>

====
